---- MODULE Spec2Model ----
(***************************************************************************)
(* Face monitor of cps-faceID (src/push-api/push.py): one                  *)
(* SimpleCameraMonitor per enabled camera polls its folder, submits new    *)
(* images to the CompreFace service and writes live_status.json and        *)
(* recognition_results.json.                                               *)
(*                                                                         *)
(* Encoding.  A file path is the rank (1, 2, ...) of its name among the    *)
(* names of one camera folder, so Python's string comparison of two paths  *)
(* of one folder is < on ranks; None (no path) is 0.  Ages are in          *)
(* milliseconds, sizes in bytes, similarities in 1/10000.  Clock readings  *)
(* and sleep arguments are in milliseconds.                                *)
(***************************************************************************)
EXTENDS Integers, Sequences, FiniteSets, TLC

VARIABLES
    monitors,           \* SimpleMonitorSystem.monitors: ids of the monitors created
    folder,             \* per camera: the files of folder_path, name |-> [age, size]
    last_processed,     \* per camera: SimpleCameraMonitor.last_processed (0 = None)
    processing_lock,    \* per camera: TRUE while processing_lock is held
    is_busy,            \* per camera: SimpleCameraMonitor.is_busy
    consecutive_empty,  \* per camera: run_loop's local consecutive_empty
    heartbeat_due,      \* per camera: current_time - last_heartbeat > 30
    pc,                 \* per camera: position of the worker thread in run_loop
    new_images,         \* per camera: the batch returned by get_newest_images
    batch_pos,          \* per camera: index in new_images of the image in process_image
    max_count,          \* per camera: the max_count argument of the last scan
    api_reply,          \* per camera: what the HTTP request of recognize_face meets
    live_status,        \* content of live_status.json
    history,            \* content of recognition_results.json
    api_calls,          \* per camera: log of the paths passed to recognize_face
    appended,           \* log of every entry recognition_results.json ever received
    check_interval,     \* per camera: run_loop's local check_interval, in ms
    sleep_for,          \* per camera: argument of the last time.sleep, in ms
    now,                \* time.time(), in ms, where the clock is followed
    last_heartbeat,     \* per camera: run_loop's local last_heartbeat
    writable,           \* whether live_status.json / the history can be written
    dashboard,          \* what get_latest_status of the dashboard returned last
    main_pc,            \* position of the main thread
    config_file,        \* content of api-config.yaml
    loaded,             \* per camera: all_results of save_to_history, as read
    downloader,         \* the MultiCameraDownloader of pull.py, its threads and folders
    starter             \* the ESP32SystemStarter of start.py and its child processes

vars == <<monitors, folder, last_processed, processing_lock, is_busy,
          consecutive_empty, heartbeat_due, pc, new_images, batch_pos, max_count,
          api_reply, live_status, history, api_calls, appended, check_interval,
          sleep_for, now, last_heartbeat, writable, dashboard, main_pc,
          config_file, loaded, downloader, starter>>

----------------------------------------------------------------------------
(* Bounds of the model *)

MaxFiles == 4
MaxEmpty == 2
MaxSubjects == 2
MaxTicks == 36
MaxClock == 60000
MaxLiveFiles == 2
MaxThreads == 4
MaxImages == 2
MaxLeft == 3
MaxSaved == 2
MaxChildren == 5

----------------------------------------------------------------------------
(* Program constants *)

MinAgeMs == 500
MinSize == 3000
BatchCap == 3
HistoryCap == 50
Threshold == 7000
ResultLimit == 2
DefaultInterval == 1500
FastDelay == 200
HeartbeatEvery == 30000
JoinTimeout == 5000
RequestTimeout == 10000
PullInterval == 2000

None == 0
Cameras == {"ESP32-001", "ESP32-002"}
Files == 1..MaxFiles

----------------------------------------------------------------------------
(* get_newest_images.  dir is what glob, getmtime and getsize report; every   *)
(* listed file can be read, so the except clause of lines 114-116 is not      *)
(* entered.                                                                   *)

Min(S) == CHOOSE x \in S : \A y \in S : x <= y

RECURSIVE Sorted(_)
Sorted(S) ==
    IF S = {} THEN <<>> ELSE <<Min(S)>> \o Sorted(S \ {Min(S)})

AfterCursor_NoCompare(last, found, file_path) ==
    TRUE

AfterCursor(last, found, file_path) ==
    last = None \/ found \/ file_path > last

Qualifies_AgeExclusive(dir, file_path) ==
    dir[file_path].age > MinAgeMs /\ dir[file_path].size > MinSize

Qualifies_NoAge(dir, file_path) ==
    dir[file_path].size > MinSize

Qualifies_SizeInclusive(dir, file_path) ==
    dir[file_path].age >= MinAgeMs /\ dir[file_path].size >= MinSize

Qualifies(dir, file_path) ==
    dir[file_path].age >= MinAgeMs /\ dir[file_path].size > MinSize

BatchFull_OffByOne(new_files, cap) ==
    Len(new_files) > cap

BatchFull(new_files, cap) ==
    Len(new_files) >= cap

RECURSIVE ScanLoop(_, _, _, _, _, _)
ScanLoop(files, dir, last, found, new_files, cap) ==
    IF files = <<>> THEN new_files
    ELSE LET file_path == Head(files)
             rest == Tail(files)
         IN  IF last # None /\ file_path = last
             THEN ScanLoop(rest, dir, last, TRUE, new_files, cap)
             ELSE IF AfterCursor(last, found, file_path) /\ Qualifies(dir, file_path)
                  THEN LET grown == Append(new_files, file_path)
                       IN  IF BatchFull(grown, cap) THEN grown
                           ELSE ScanLoop(rest, dir, last, found, grown, cap)
                  ELSE ScanLoop(rest, dir, last, found, new_files, cap)

get_newest_images_Nothing(dir, last, cap) ==
    <<>>

get_newest_images(dir, last, cap) ==
    IF DOMAIN dir = {} THEN <<>>
    ELSE ScanLoop(Sorted(DOMAIN dir), dir, last, FALSE, <<>>, cap)

----------------------------------------------------------------------------
(* SimpleCompreFaceAPI.recognize_face *)

Dict(faces) == [type |-> "dict", result |-> faces]
NoBody == [type |-> "none", result |-> <<>>]

\* What the POST of recognize_face meets: a response, a requests Timeout, or
\* another exception whose str() is text.
HttpResponse(code, sentinel, body) ==
    [kind |-> "response", status_code |-> code, no_face_text |-> sentinel,
     json |-> body, text |-> ""]
TimeoutRaised ==
    [kind |-> "timeout", status_code |-> 0, no_face_text |-> FALSE,
     json |-> NoBody, text |-> ""]
ExceptionRaised(msg) ==
    [kind |-> "exception", status_code |-> 0, no_face_text |-> FALSE,
     json |-> NoBody, text |-> msg]

ConnectionRefusedText == "Connection refused"
WriteTimeoutText == "('Connection aborted.', TimeoutError('The write operation timed out'))"
JsonErrorText == "Expecting value: line 1 column 1 (char 0)"

HttpErrorText(code) ==
    CASE code = 400 -> "HTTP 400"
      [] code = 500 -> "HTTP 500"
      [] OTHER -> "HTTP 503"

Failure(msg) == [success |-> FALSE, data |-> NoBody, error |-> msg]
Success(body) == [success |-> TRUE, data |-> body, error |-> ""]

recognize_face(reply) ==
    CASE reply.kind = "timeout" -> Failure("Timeout")
      [] reply.kind = "exception" -> Failure(reply.text)
      [] OTHER ->
            IF reply.status_code = 200
            THEN IF reply.json.type = "invalid" THEN Failure(JsonErrorText)
                 ELSE Success(reply.json)
            ELSE IF reply.no_face_text THEN Success(Dict(<<>>))
            ELSE Failure(HttpErrorText(reply.status_code))

----------------------------------------------------------------------------
(* SimpleCameraMonitor.process_image: reading the result *)

\* "Timeout" in result['error'], over the error texts of the model
ContainsTimeout(msg) ==
    msg \in {"Timeout", WriteTimeoutText}

Similarity(s) == IF "similarity" \in DOMAIN s THEN s.similarity ELSE 0

Best_First(subjects) ==
    subjects[1]

\* max(subjects, key=similarity): the first subject of maximal similarity
Best(subjects) ==
    LET top == {k \in 1..Len(subjects) :
                  \A j \in 1..Len(subjects) :
                      Similarity(subjects[j]) <= Similarity(subjects[k])}
    IN  subjects[Min(top)]

IsRecognized_Exclusive(best) ==
    Similarity(best) > Threshold

IsRecognized(best) ==
    Similarity(best) >= Threshold

RECURSIVE FaceLoop(_, _, _)
FaceLoop(faces, recognized, unknown) ==
    IF faces = <<>>
    THEN [raised |-> FALSE, recognized |-> recognized, unknown |-> unknown]
    ELSE LET face == Head(faces)
             subjects == IF "subjects" \in DOMAIN face THEN face.subjects ELSE <<>>
         IN  IF Len(subjects) > 0
             THEN LET best == Best(subjects)
                  IN  IF IsRecognized(best)
                      THEN IF "subject" \in DOMAIN best
                           THEN FaceLoop(Tail(faces),
                                         Append(recognized, best.subject), unknown)
                           ELSE [raised |-> TRUE, recognized |-> recognized,
                                 unknown |-> unknown]
                      ELSE FaceLoop(Tail(faces), recognized, unknown + 1)
             ELSE FaceLoop(Tail(faces), recognized, unknown + 1)

Published(status_type, message, detail, recognized, save) ==
    [raised |-> FALSE, status |-> status_type, message |-> message,
     detail |-> detail, recognized |-> recognized, save |-> save]
Raised ==
    [raised |-> TRUE, status |-> "", message |-> "", detail |-> 0,
     recognized |-> <<>>, save |-> FALSE]

ErrorStatus_AllRed(msg) ==
    Published("red", "API Fehler", 0, <<>>, FALSE)

ErrorStatus(msg) ==
    IF ContainsTimeout(msg)
    THEN Published("gray", "API langsam", 0, <<>>, FALSE)
    ELSE Published("red", "API Fehler", 0, <<>>, FALSE)

FacesStatus_SaveAlways(found) ==
    IF Len(found.recognized) > 0
    THEN Published("green", "Erkannt", 0, found.recognized, TRUE)
    ELSE Published("red", "unbekannte Person(en)", found.unknown, <<>>, TRUE)

FacesStatus(found) ==
    IF Len(found.recognized) > 0
    THEN Published("green", "Erkannt", 0, found.recognized, TRUE)
    ELSE Published("red", "unbekannte Person(en)", found.unknown, <<>>, FALSE)

\* lines 131-177: what process_image publishes for a result, or that it raises
ReadResult(result) ==
    IF result.success
    THEN IF result.data.type # "dict" THEN Raised
         ELSE LET faces == result.data.result
              IN  IF Len(faces) = 0
                  THEN Published("gray", "Keine Gesichter erkannt", 0, <<>>, FALSE)
                  ELSE LET found == FaceLoop(faces, <<>>, 0)
                       IN  IF found.raised THEN Raised ELSE FacesStatus(found)
    ELSE ErrorStatus(result.error)

----------------------------------------------------------------------------
(* update_live_status, save_to_history.  When a file cannot be written the  *)
(* except clause (lines 231-232, 263-264) logs the error and returns.         *)

NoStatus ==
    [camera_id |-> "", status |-> "none", message |-> "", detail |-> 0,
     recognized |-> <<>>, image_file |-> None]

update_live_status_NoImage(camera_id, status_type, message, detail, recognized, image_file) ==
    [camera_id |-> camera_id, status |-> status_type, message |-> message,
     detail |-> detail, recognized |-> recognized, image_file |-> None]

update_live_status(camera_id, status_type, message, detail, recognized, image_file) ==
    [camera_id |-> camera_id, status |-> status_type, message |-> message,
     detail |-> detail, recognized |-> recognized, image_file |-> image_file]

\* live_status.json right after open(..., 'w'), and whenever its text is no
\* JSON document.
EmptyFile ==
    [camera_id |-> "", status |-> "empty", message |-> "", detail |-> 0,
     recognized |-> <<>>, image_file |-> None]

\* Lines 228-232: the contents live_status.json can have after the call.  When
\* the write fails the file keeps its content or is left truncated.
StatusFileAfter(live) ==
    IF writable.status THEN {live} ELSE {live_status, EmptyFile}

HistoryEntry(camera_id, filename, recognized) ==
    [camera |-> camera_id, image |-> filename, recognized |-> recognized]

LastN(log, n) ==
    IF Len(log) > n THEN SubSeq(log, Len(log) - n + 1, Len(log)) ELSE log

save_to_history_DropNewest(all_results, entry) ==
    LET grown == Append(all_results, entry)
    IN  IF Len(grown) > HistoryCap THEN SubSeq(grown, 1, HistoryCap) ELSE grown

save_to_history(all_results, entry) ==
    LET grown == Append(all_results, entry)
    IN  IF Len(grown) > HistoryCap THEN LastN(grown, HistoryCap) ELSE grown

----------------------------------------------------------------------------
(* web_dashboard.get_latest_status *)

\* The dashboard has not called get_latest_status yet.
NotAsked ==
    [status |-> "", message |-> "", camera |-> "", image |-> None,
     recognized |-> <<>>]

\* Lines 35-43: no file, or a record of 5 minutes or more ago.
NotActive ==
    [status |-> "gray", message |-> "System nicht aktiv", camera |-> "N/A",
     image |-> None, recognized |-> <<>>]

\* Lines 45-54: an exception, as json.load raises on a file without a document.
ReadError ==
    [status |-> "red", message |-> "Fehler", camera |-> "ERROR", image |-> None,
     recognized |-> <<>>]

\* Lines 11-54 on the file as it is when opened; fresh: the timestamp of the
\* record is less than 5 minutes old.
get_latest_status(file, fresh) ==
    IF file.status = "none" THEN NotActive
    ELSE IF file.status = "empty" THEN ReadError
    ELSE IF fresh
    THEN [status |-> file.status, message |-> file.message,
          camera |-> file.camera_id, image |-> file.image_file,
          recognized |-> file.recognized]
    ELSE NotActive

----------------------------------------------------------------------------
(* run_loop: the sleep before the next iteration *)

Delay_SlowAtOnce(empty, interval) ==
    IF empty = 0 THEN FastDelay
    ELSE IF empty < 3 THEN interval
    ELSE IF empty < 10 THEN interval
    ELSE (interval * 12) \div 10

\* Lines 318-330: check_interval * 0.3 and * 1.2 on an interval in ms.
Delay(empty, interval) ==
    IF empty = 0 THEN FastDelay
    ELSE IF empty < 3 THEN (interval * 3) \div 10
    ELSE IF empty < 10 THEN interval
    ELSE (interval * 12) \div 10

FallbackSleep_Adaptive(empty, interval) ==
    Delay(empty, interval)

\* Line 339: the sleep of the handler of the loop.
FallbackSleep(empty, interval) ==
    interval

----------------------------------------------------------------------------
(* The environment: the image producer, the clock, the recognition service *)

ArrivalSizes == {MinSize, MinSize + 1}

\* time.time() when run_loop takes its first reading (line 279), in ms: the
\* clock counts from 1970, so it is far beyond the 30 s of line 302.
StartClock == 1000000000

Alice == [subject |-> "alice", similarity |-> 8200]
AliceAtThreshold == [subject |-> "alice", similarity |-> Threshold]
AliceBelow == [subject |-> "alice", similarity |-> Threshold - 1]
Nameless == [similarity |-> 9000]
Face(subjects) == [subjects |-> subjects]

Replies ==
    { HttpResponse(200, FALSE, Dict(<<>>)),
      HttpResponse(200, FALSE, Dict(<<Face(<<Alice>>)>>)),
      HttpResponse(200, FALSE, Dict(<<Face(<<AliceAtThreshold>>)>>)),
      HttpResponse(200, FALSE, Dict(<<Face(<<AliceBelow>>)>>)),
      HttpResponse(200, FALSE, Dict(<<Face(<<Nameless>>)>>)),
      HttpResponse(200, FALSE, [type |-> "invalid", result |-> <<>>]),
      HttpResponse(400, TRUE, NoBody),
      HttpResponse(500, FALSE, NoBody),
      TimeoutRaised,
      ExceptionRaised(ConnectionRefusedText),
      ExceptionRaised(WriteTimeoutText) }

\* The producer stores the next image: names embed the time, so it sorts last.
FileArrives(c, size) ==
    LET file_path == Cardinality(DOMAIN folder[c]) + 1
    IN  /\ c \in monitors
        /\ file_path <= MaxFiles
        /\ folder' = [folder EXCEPT ![c] = @ @@ (file_path :> [age |-> 0, size |-> size])]
        /\ UNCHANGED <<monitors, last_processed, processing_lock, is_busy,
                       consecutive_empty, heartbeat_due, pc, new_images, batch_pos,
                       max_count, api_reply, live_status, history, loaded, api_calls,
                       appended>>
        /\ UNCHANGED <<check_interval, sleep_for, now, last_heartbeat, writable,
                       dashboard, main_pc, config_file, downloader, starter>>

\* Half a second passes: every file written less than that ago is now old
\* enough.  Ages are kept up to MinAgeMs, beyond which a scan tells no difference.
TimePasses ==
    /\ \E c \in Cameras : \E f \in DOMAIN folder[c] : folder[c][f].age < MinAgeMs
    /\ folder' = [c \in Cameras |->
                    [f \in DOMAIN folder[c] |-> [folder[c][f] EXCEPT !.age = MinAgeMs]]]
    /\ UNCHANGED <<monitors, last_processed, processing_lock, is_busy,
                   consecutive_empty, heartbeat_due, pc, new_images, batch_pos,
                   max_count, api_reply, live_status, history, loaded, api_calls, appended>>
    /\ UNCHANGED <<check_interval, sleep_for, now, last_heartbeat, writable,
                   dashboard, main_pc, config_file, downloader, starter>>

\* More than 30 s have passed since last_heartbeat (line 302).  last_heartbeat
\* starts at 0, so the first comparison with time.time() succeeds.
HeartbeatTimer(c) ==
    /\ c \in monitors
    /\ ~heartbeat_due[c]
    /\ heartbeat_due' = [heartbeat_due EXCEPT ![c] = TRUE]
    /\ UNCHANGED <<monitors, folder, last_processed, processing_lock, is_busy,
                   consecutive_empty, pc, new_images, batch_pos, max_count,
                   api_reply, live_status, history, loaded, api_calls, appended>>
    /\ UNCHANGED <<check_interval, sleep_for, now, last_heartbeat, writable,
                   dashboard, main_pc, config_file, downloader, starter>>

----------------------------------------------------------------------------
(* SimpleCameraMonitor.run_loop *)

release_Never(lock, c) ==
    lock

release_All(lock, c) ==
    [d \in Cameras |-> FALSE]

\* Line 314: the finally clause releases the lock of the monitor.
release(lock, c) ==
    [lock EXCEPT ![c] = FALSE]

StartLoop_Silent(c) ==
    /\ c \in monitors
    /\ pc[c] = "start"
    /\ pc' = [pc EXCEPT ![c] = "top"]
    /\ UNCHANGED <<monitors, folder, last_processed, processing_lock, is_busy,
                   consecutive_empty, heartbeat_due, new_images, batch_pos,
                   max_count, api_reply, live_status, history, loaded, api_calls,
                   appended, check_interval, sleep_for, now, last_heartbeat,
                   writable, dashboard, main_pc, config_file, downloader, starter>>

\* Lines 268-275: the locals of run_loop and the initial status.
StartLoop(c) ==
    /\ c \in monitors
    /\ pc[c] = "start"
    /\ live_status' \in StatusFileAfter(
            update_live_status(c, "gray", "System gestartet", 0, <<>>, None))
    /\ pc' = [pc EXCEPT ![c] = "top"]
    /\ UNCHANGED <<monitors, folder, last_processed, processing_lock, is_busy,
                   consecutive_empty, heartbeat_due, new_images, batch_pos,
                   max_count, api_reply, history, loaded, api_calls, appended>>
    /\ UNCHANGED <<check_interval, sleep_for, now, last_heartbeat, writable,
                   dashboard, main_pc, config_file, downloader, starter>>

\* An iteration whose scan finds nothing (lines 279-288, 298-330).  most caps
\* the counter.
ScanEmpty(c, cap, most) ==
    /\ c \in monitors
    /\ pc[c] = "top"
    /\ ~processing_lock[c]
    /\ ~is_busy[c]
    /\ get_newest_images(folder[c], last_processed[c], cap) = <<>>
    /\ consecutive_empty[c] < most
    /\ consecutive_empty' = [consecutive_empty EXCEPT ![c] = @ + 1]
    /\ IF heartbeat_due[c]
       THEN /\ live_status' \in StatusFileAfter(
                    update_live_status(c, "gray", "Ueberwache",
                                       consecutive_empty[c] + 1, <<>>, None))
            /\ heartbeat_due' = [heartbeat_due EXCEPT ![c] = FALSE]
            /\ last_heartbeat' = [last_heartbeat EXCEPT ![c] = now]
       ELSE UNCHANGED <<live_status, heartbeat_due, last_heartbeat>>
    /\ sleep_for' = [sleep_for EXCEPT
                       ![c] = Delay(consecutive_empty[c] + 1, check_interval[c])]
    /\ new_images' = [new_images EXCEPT ![c] = <<>>]
    /\ batch_pos' = [batch_pos EXCEPT ![c] = 0]
    /\ max_count' = [max_count EXCEPT ![c] = cap]
    /\ pc' = [pc EXCEPT ![c] = "sleep"]
    /\ UNCHANGED <<monitors, folder, last_processed, processing_lock, is_busy,
                   api_reply, history, loaded, api_calls, appended>>
    /\ UNCHANGED <<check_interval, now, writable, dashboard,
                   main_pc, config_file, downloader, starter>>

\* An iteration whose scan finds a batch (lines 282-295): the lock and is_busy
\* are held while the batch is processed.
ScanBatch(c, cap) ==
    /\ c \in monitors
    /\ pc[c] = "top"
    /\ ~processing_lock[c]
    /\ ~is_busy[c]
    /\ get_newest_images(folder[c], last_processed[c], cap) # <<>>
    /\ processing_lock' = [processing_lock EXCEPT ![c] = TRUE]
    /\ is_busy' = [is_busy EXCEPT ![c] = TRUE]
    /\ new_images' = [new_images EXCEPT
                        ![c] = get_newest_images(folder[c], last_processed[c], cap)]
    /\ batch_pos' = [batch_pos EXCEPT ![c] = 1]
    /\ max_count' = [max_count EXCEPT ![c] = cap]
    /\ pc' = [pc EXCEPT ![c] = "process"]
    /\ UNCHANGED <<monitors, folder, last_processed, consecutive_empty,
                   heartbeat_due, api_reply, live_status, history, loaded, api_calls,
                   appended>>
    /\ UNCHANGED <<check_interval, sleep_for, now, last_heartbeat, writable,
                   dashboard, main_pc, config_file, downloader, starter>>

\* An iteration that finds is_busy set (lines 284, 311-330).
SkipBusy(c) ==
    /\ c \in monitors
    /\ pc[c] = "top"
    /\ ~processing_lock[c]
    /\ is_busy[c]
    /\ sleep_for' = [sleep_for EXCEPT
                       ![c] = Delay(consecutive_empty[c], check_interval[c])]
    /\ pc' = [pc EXCEPT ![c] = "sleep"]
    /\ UNCHANGED <<monitors, folder, last_processed, processing_lock, is_busy,
                   consecutive_empty, heartbeat_due, new_images, batch_pos,
                   max_count, api_reply, live_status, history, loaded, api_calls, appended>>
    /\ UNCHANGED <<check_interval, now, last_heartbeat, writable,
                   dashboard, main_pc, config_file, downloader, starter>>

\* time.sleep returns (lines 318-330, 339); how long it took is not followed.
Wake(c) ==
    /\ c \in monitors
    /\ pc[c] = "sleep"
    /\ pc' = [pc EXCEPT ![c] = "top"]
    /\ UNCHANGED <<monitors, folder, last_processed, processing_lock, is_busy,
                   consecutive_empty, heartbeat_due, new_images, batch_pos,
                   max_count, api_reply, live_status, history, loaded, api_calls, appended>>
    /\ UNCHANGED <<check_interval, sleep_for, now, last_heartbeat, writable,
                   dashboard, main_pc, config_file, downloader, starter>>

----------------------------------------------------------------------------
(* SimpleCameraMonitor.process_image *)

CurrentImage(c) == new_images[c][batch_pos[c]]

\* Lines 120-128: publish 'processing' and send the image.
BeginImage(c) ==
    /\ c \in monitors
    /\ pc[c] = "process"
    /\ live_status' \in StatusFileAfter(
            update_live_status(c, "processing", "Verarbeite", 0, <<>>, CurrentImage(c)))
    /\ api_calls' = [api_calls EXCEPT ![c] = Append(@, CurrentImage(c))]
    /\ \E reply \in Replies : api_reply' = [api_reply EXCEPT ![c] = reply]
    /\ pc' = [pc EXCEPT ![c] = "await"]
    /\ UNCHANGED <<monitors, folder, last_processed, processing_lock, is_busy,
                   consecutive_empty, heartbeat_due, new_images, batch_pos,
                   max_count, history, loaded, appended>>
    /\ UNCHANGED <<check_interval, sleep_for, now, last_heartbeat, writable,
                   dashboard, main_pc, config_file, downloader, starter>>

NextCursor_EndOfBatch(c, result) ==
    new_images[c][Len(new_images[c])]

NextCursor_Stays(c, result) ==
    last_processed[c]

NextCursor_OnlyWhenWritten(c, result) ==
    IF writable.status THEN CurrentImage(c) ELSE last_processed[c]

NextCursor_OnlyOnSuccess(c, result) ==
    IF result.success THEN CurrentImage(c) ELSE last_processed[c]

\* Line 180.
NextCursor(c, result) ==
    CurrentImage(c)

\* Lines 128-180, and the rest of the iteration after the last image of the
\* batch (lines 297, 310, 314, 318-321).
FinishImage(c) ==
    LET result == recognize_face(api_reply[c])
        out == ReadResult(result)
        entry == HistoryEntry(c, CurrentImage(c), out.recognized)
        last == batch_pos[c] = Len(new_images[c])
    IN  /\ c \in monitors
        /\ pc[c] = "await"
        /\ ~out.raised
        /\ live_status' \in StatusFileAfter(
                update_live_status(c, out.status, out.message, out.detail,
                                   out.recognized, CurrentImage(c)))
        /\ history' = IF out.save /\ writable.history
                      THEN save_to_history(history, entry) ELSE history
        /\ appended' = IF out.save /\ writable.history
                       THEN Append(appended, entry) ELSE appended
        /\ last_processed' = [last_processed EXCEPT ![c] = NextCursor(c, result)]
        /\ IF last
           THEN /\ consecutive_empty' = [consecutive_empty EXCEPT ![c] = 0]
                /\ is_busy' = [is_busy EXCEPT ![c] = FALSE]
                /\ processing_lock' = release(processing_lock, c)
                /\ new_images' = [new_images EXCEPT ![c] = <<>>]
                /\ batch_pos' = [batch_pos EXCEPT ![c] = 0]
                /\ sleep_for' = [sleep_for EXCEPT
                                   ![c] = Delay(0, check_interval[c])]
                /\ pc' = [pc EXCEPT ![c] = "sleep"]
           ELSE /\ batch_pos' = [batch_pos EXCEPT ![c] = @ + 1]
                /\ pc' = [pc EXCEPT ![c] = "process"]
                /\ UNCHANGED <<consecutive_empty, is_busy, processing_lock,
                               new_images, sleep_for>>
        /\ UNCHANGED <<monitors, folder, heartbeat_due, max_count, api_reply,
                       api_calls, loaded>>
        /\ UNCHANGED <<check_interval, now, last_heartbeat, writable,
                       dashboard, main_pc, config_file, downloader, starter>>

\* process_image raises on the response body: the finally clause releases the
\* lock, the handler of the loop publishes the error and sleeps (lines 313-314,
\* 336-339); line 310 is not reached.
FinishImageRaises(c) ==
    LET result == recognize_face(api_reply[c])
        out == ReadResult(result)
    IN  /\ c \in monitors
        /\ pc[c] = "await"
        /\ out.raised
        /\ processing_lock' = release(processing_lock, c)
        /\ live_status' \in StatusFileAfter(
                update_live_status(c, "red", "System Fehler", 0, <<>>, None))
        /\ new_images' = [new_images EXCEPT ![c] = <<>>]
        /\ batch_pos' = [batch_pos EXCEPT ![c] = 0]
        /\ sleep_for' = [sleep_for EXCEPT
                           ![c] = FallbackSleep(consecutive_empty[c], check_interval[c])]
        /\ pc' = [pc EXCEPT ![c] = "sleep"]
        /\ UNCHANGED <<monitors, folder, last_processed, is_busy, consecutive_empty,
                       heartbeat_due, max_count, api_reply, history, loaded, api_calls,
                       appended>>
        /\ UNCHANGED <<check_interval, now, last_heartbeat, writable,
                       dashboard, main_pc, config_file, downloader, starter>>

----------------------------------------------------------------------------
(* SimpleMonitorSystem: api-config.yaml, load_config, __init__, start, main *)

\* api-config.yaml: whether it is there, the top-level keys of its document,
\* the url under compreface and the cameras whose enabled flag is not false.
Document(sections, url, enabled) ==
    [exists |-> TRUE, sections |-> sections, url |-> url, enabled |-> enabled]
NoConfigFile ==
    [exists |-> FALSE, sections |-> {}, url |-> "", enabled |-> {}]

ValidConfig ==
    Document({"compreface", "cameras"}, "http://localhost:8000", {"ESP32-001"})

\* Lines 366-379.
DefaultConfig ==
    Document({"compreface", "cameras"}, "https://faceid.tappe.dev", {"ESP32-001"})

ConfigFiles ==
    { NoConfigFile,
      ValidConfig,
      Document({"compreface", "cameras"}, "http://localhost:8000", {}),
      Document({"cameras"}, "", {"ESP32-001"}),
      Document({"compreface"}, "http://localhost:8000", {}),
      Document({}, "", {}) }

\* Lines 359-385: the configuration returned; a missing file is replaced by
\* the default configuration, which is written to the file.
load_config(file) ==
    IF file.exists THEN file ELSE DefaultConfig

Constructs_WithoutService(config) ==
    "cameras" \in config.sections

\* Lines 348-355: __init__ reads config['compreface'] and config['cameras'].
Constructs(config) ==
    "compreface" \in config.sections /\ "cameras" \in config.sections

\* Lines 419-423 with 344-357 and 387-401: main() builds the system and starts
\* one thread per monitor, or logs the exception of __init__ and returns.
Main ==
    LET config == load_config(config_file)
    IN  /\ main_pc = "main"
        /\ config_file' = config
        /\ IF Constructs(config)
           THEN /\ monitors' = config.enabled
                /\ main_pc' = "wait"
           ELSE /\ monitors' = {}
                /\ main_pc' = "exited"
        /\ UNCHANGED <<folder, last_processed, processing_lock, is_busy,
                       consecutive_empty, heartbeat_due, pc, new_images, batch_pos,
                       max_count, api_reply, live_status, history, loaded, api_calls,
                       appended, check_interval, sleep_for, now, last_heartbeat,
                       writable, dashboard, downloader, starter>>

\* Lines 403-408: Ctrl+C reaches the main thread in its sleep; start() logs
\* and returns, main() returns and the interpreter exits.  The threads are
\* daemon threads: each ends where it is.  No monitor is told anything, and
\* no thread but the main one receives KeyboardInterrupt.
KeyboardInterrupt ==
    /\ main_pc = "wait"
    /\ main_pc' = "exited"
    /\ pc' = [c \in Cameras |-> IF c \in monitors THEN "killed" ELSE pc[c]]
    /\ UNCHANGED <<monitors, folder, last_processed, processing_lock, is_busy,
                   consecutive_empty, heartbeat_due, new_images, batch_pos,
                   max_count, api_reply, live_status, history, loaded, api_calls, appended,
                   check_interval, sleep_for, now, last_heartbeat, writable,
                   dashboard, config_file, downloader, starter>>

----------------------------------------------------------------------------
(* pull.py: MultiCameraDownloader, the image producer.  A file of a camera  *)
(* folder is the reading of the clock at which it was created, so the order *)
(* of os.path.getctime is < on files.                                       *)

PullCameras == {"Hauptkamera", "Eingangskamera"}

\* What _load_config returns, as far as start and _download_image_for_camera
\* read it: the names of the cameras with enabled true, in the order of the
\* cameras list, and max_images of global_settings (the cameras carry none
\* of their own, so line 177-178 reads the setting of the current config).
PullConfigs ==
    { [enabled |-> e, max_images |-> m] :
        e \in {<<>>, <<"Hauptkamera">>, <<"Hauptkamera", "Eingangskamera">>},
        m \in 1..MaxImages }

\* __init__ (lines 11-24) on a configuration and on camera folders as an
\* earlier run left them.  threads holds every thread start() ever created
\* (download_threads holds indices into it): its camera and where it is in
\* _camera_download_loop.  main is where the thread calling start, stop and
\* reload_config is, printed the last line it printed.
MultiCameraDownloader(config, left) ==
    [config |-> config, running |-> FALSE, download_threads |-> <<>>,
     threads |-> <<>>, images |-> left, clock |-> MaxLeft, main |-> "idle",
     printed |-> ""]

NoImages == [c \in PullCameras |-> {}]

\* Two enabled cameras, as in the example of _create_example_config (lines
\* 65-113), with the retention cap at the bound of the model.
ExampleConfig == [enabled |-> <<"Hauptkamera", "Eingangskamera">>, max_images |-> MaxImages]

\* Line 159: the files with the given creation times, newest first.
RECURSIVE ByCreationTime(_)
ByCreationTime(files) ==
    IF files = {} THEN <<>>
    ELSE LET newest == CHOOSE f \in files : \A g \in files : g <= f
         IN  <<newest>> \o ByCreationTime(files \ {newest})

\* Python's image_files[from:] as the 1-based index of its first element.
SliceFrom(len, from) ==
    IF from < 0 THEN (IF len + from < 0 THEN 0 ELSE len + from) + 1
    ELSE (IF from > len THEN len ELSE from) + 1

cleanup_old_images_KeepsMax(files, max_images) ==
    LET image_files == ByCreationTime(files)
    IN  IF Len(image_files) > max_images
        THEN { image_files[i] : i \in 1..max_images }
        ELSE files

\* _cleanup_old_images (lines 149-169): what is left of the folder.  Every
\* file is one this process wrote, so os.remove succeeds.
cleanup_old_images(files, max_images) ==
    LET image_files == ByCreationTime(files)
        first == SliceFrom(Len(image_files), max_images - 1)
        files_to_delete == { image_files[i] : i \in first..Len(image_files) }
    IN  IF Len(image_files) >= max_images
        THEN files \ files_to_delete
        ELSE files

\* start (lines 220-249) on the downloader d.
start(d) ==
    LET enabled_cameras == d.config.enabled
        created == [i \in 1..Len(enabled_cameras) |->
                        [camera |-> enabled_cameras[i], at |-> "loop"]]
    IN  IF d.running
        THEN [d EXCEPT !.printed = "Download laeuft bereits!"]
        ELSE IF enabled_cameras = <<>>
        THEN [d EXCEPT !.printed = "Keine aktivierten Kameras gefunden!"]
        ELSE [d EXCEPT !.running = TRUE,
                       !.download_threads =
                           [i \in 1..Len(created) |-> Len(d.threads) + i],
                       !.threads = d.threads \o created,
                       !.printed = "Starte Download"]

\* Line 262: thread.join(timeout=5) returns when the thread has ended or
\* after JoinTimeout.  A thread that sleeps or is at the loop test reads
\* running = False within its interval and ends; a thread inside
\* requests.get can stay there for the timeout of the request.
Outlasts(thread) ==
    \/ thread.at = "get" /\ RequestTimeout > JoinTimeout
    \/ thread.at = "sleep" /\ PullInterval > JoinTimeout

Joined(d) ==
    \A i \in 1..Len(d.download_threads) :
        LET thread == d.threads[d.download_threads[i]]
        IN  thread.at = "ended" \/ Outlasts(thread)

\* The thread that calls start, stop and reload_config calls start.
Start ==
    /\ downloader.main = "idle"
    /\ Len(downloader.threads) + Len(downloader.config.enabled) <= MaxThreads
    /\ downloader' = start(downloader)
    /\ UNCHANGED <<monitors, folder, last_processed, processing_lock, is_busy,
                   consecutive_empty, heartbeat_due, pc, new_images, batch_pos,
                   max_count, api_reply, live_status, history, api_calls, appended,
                   check_interval, sleep_for, now, last_heartbeat, writable,
                   dashboard, main_pc, config_file, loaded, starter>>

\* stop, lines 253-258: up to the first join.
Stop ==
    /\ downloader.main = "idle"
    /\ downloader' =
         IF ~downloader.running
         THEN [downloader EXCEPT !.printed = "Download laeuft nicht!"]
         ELSE [downloader EXCEPT !.running = FALSE, !.main = "stop",
                                 !.printed = "Stoppe alle Downloads..."]
    /\ UNCHANGED <<monitors, folder, last_processed, processing_lock, is_busy,
                   consecutive_empty, heartbeat_due, pc, new_images, batch_pos,
                   max_count, api_reply, live_status, history, api_calls, appended,
                   check_interval, sleep_for, now, last_heartbeat, writable,
                   dashboard, main_pc, config_file, loaded, starter>>

\* stop, lines 261-265: every join has returned.
StopReturns ==
    /\ downloader.main = "stop"
    /\ Joined(downloader)
    /\ downloader' = [downloader EXCEPT !.download_threads = <<>>,
                                        !.main = "idle",
                                        !.printed = "Alle Downloads gestoppt."]
    /\ UNCHANGED <<monitors, folder, last_processed, processing_lock, is_busy,
                   consecutive_empty, heartbeat_due, pc, new_images, batch_pos,
                   max_count, api_reply, live_status, history, api_calls, appended,
                   check_interval, sleep_for, now, last_heartbeat, writable,
                   dashboard, main_pc, config_file, loaded, starter>>

\* reload_config (lines 320-334) while nothing runs: the configuration is
\* read again; while the downloader runs: stop up to its first join.
ReloadConfig ==
    /\ downloader.main = "idle"
    /\ IF downloader.running
       THEN downloader' = [downloader EXCEPT !.running = FALSE,
                                             !.main = "reload",
                                             !.printed = "Stoppe alle Downloads..."]
       ELSE \E config \in PullConfigs :
                downloader' = [downloader EXCEPT
                                  !.config = config,
                                  !.printed = "Konfiguration erfolgreich neu geladen!"]
    /\ UNCHANGED <<monitors, folder, last_processed, processing_lock, is_busy,
                   consecutive_empty, heartbeat_due, pc, new_images, batch_pos,
                   max_count, api_reply, live_status, history, api_calls, appended,
                   check_interval, sleep_for, now, last_heartbeat, writable,
                   dashboard, main_pc, config_file, loaded, starter>>

\* reload_config, lines 326-334, after the joins of stop: the configuration
\* is read again and start is called, since old_running is true.
ReloadRestarts ==
    /\ downloader.main = "reload"
    /\ Joined(downloader)
    /\ \E config \in PullConfigs :
         /\ Len(downloader.threads) + Len(config.enabled) <= MaxThreads
         /\ downloader' =
              [start([downloader EXCEPT !.download_threads = <<>>,
                                        !.config = config])
                 EXCEPT !.main = "idle",
                        !.printed = "Konfiguration erfolgreich neu geladen!"]
    /\ UNCHANGED <<monitors, folder, last_processed, processing_lock, is_busy,
                   consecutive_empty, heartbeat_due, pc, new_images, batch_pos,
                   max_count, api_reply, live_status, history, api_calls, appended,
                   check_interval, sleep_for, now, last_heartbeat, writable,
                   dashboard, main_pc, config_file, loaded, starter>>

\* _camera_download_loop, line 214, and _download_image_for_camera up to the
\* request (lines 175-186): while running is true the folder is cleaned up
\* and the request is sent; otherwise the thread ends.
LoopTest(t) ==
    LET thread == downloader.threads[t]
        max_images == downloader.config.max_images
    IN  /\ thread.at = "loop"
        /\ downloader' =
             IF downloader.running
             THEN [downloader EXCEPT
                      !.threads[t].at = "get",
                      !.images[thread.camera] =
                          cleanup_old_images(@, max_images)]
             ELSE [downloader EXCEPT !.threads[t].at = "ended"]
        /\ UNCHANGED <<monitors, folder, last_processed, processing_lock,
                       is_busy, consecutive_empty, heartbeat_due, pc, new_images,
                       batch_pos, max_count, api_reply, live_status, history,
                       api_calls, appended, check_interval, sleep_for, now,
                       last_heartbeat, writable, dashboard, main_pc, config_file,
                       loaded, starter>>

\* Lines 186-197 and 216: the camera answers, the image is written under a
\* name made of the clock reading, and the thread sleeps.
ImageSaved(t) ==
    LET thread == downloader.threads[t]
    IN  /\ thread.at = "get"
        /\ downloader.clock < MaxLeft + MaxSaved
        /\ downloader' = [downloader EXCEPT
                             !.threads[t].at = "sleep",
                             !.clock = @ + 1,
                             !.images[thread.camera] = @ \cup {downloader.clock + 1}]
        /\ UNCHANGED <<monitors, folder, last_processed, processing_lock,
                       is_busy, consecutive_empty, heartbeat_due, pc, new_images,
                       batch_pos, max_count, api_reply, live_status, history,
                       api_calls, appended, check_interval, sleep_for, now,
                       last_heartbeat, writable, dashboard, main_pc, config_file,
                       loaded, starter>>

\* Lines 186-187, 199-204 and 216: the request fails or times out, nothing
\* is written, and the thread sleeps.
RequestFails(t) ==
    /\ downloader.threads[t].at = "get"
    /\ downloader' = [downloader EXCEPT !.threads[t].at = "sleep"]
    /\ UNCHANGED <<monitors, folder, last_processed, processing_lock,
                   is_busy, consecutive_empty, heartbeat_due, pc, new_images,
                   batch_pos, max_count, api_reply, live_status, history,
                   api_calls, appended, check_interval, sleep_for, now,
                   last_heartbeat, writable, dashboard, main_pc, config_file,
                   loaded, starter>>

\* Line 216: time.sleep(interval) returns.
SleepReturns(t) ==
    /\ downloader.threads[t].at = "sleep"
    /\ downloader' = [downloader EXCEPT !.threads[t].at = "loop"]
    /\ UNCHANGED <<monitors, folder, last_processed, processing_lock,
                   is_busy, consecutive_empty, heartbeat_due, pc, new_images,
                   batch_pos, max_count, api_reply, live_status, history,
                   api_calls, appended, check_interval, sleep_for, now,
                   last_heartbeat, writable, dashboard, main_pc, config_file,
                   loaded, starter>>

DownloadThread(t) ==
    \/ LoopTest(t)
    \/ ImageSaved(t)
    \/ RequestFails(t)
    \/ SleepReturns(t)

----------------------------------------------------------------------------
(* start.py: ESP32SystemStarter.  A child process is its index in children, *)
(* the list of every process Popen ever created.                            *)

Components == <<"Pull API", "Face Monitor", "Web Dashboard">>

\* __init__ (lines 10-13); at is where start_all is.
ESP32SystemStarter ==
    [processes |-> <<>>, running |-> TRUE, children |-> <<>>, at |-> "check"]

\* start_pull_api, start_face_monitor, start_web_dashboard (lines 15-86)
\* when the script is there and Popen returns: the pair of the name and the
\* new process is appended, and True is returned.
Popen(s, name) ==
    [s EXCEPT !.children = Append(@, [name |-> name, state |-> "running"]),
              !.processes = Append(@, [name |-> name,
                                       process |-> Len(s.children) + 1])]

\* The processes of the list that have not ended.
Alive(s) ==
    { s.processes[i].process : i \in 1..Len(s.processes) } \cap
    { p \in 1..Len(s.children) : s.children[p].state = "running" }

stop_all_NoKill(s, slow) ==
    [s EXCEPT !.running = FALSE,
              !.children = [p \in 1..Len(s.children) |->
                               IF p \in Alive(s) \ slow
                               THEN [s.children[p] EXCEPT !.state = "terminated"]
                               ELSE s.children[p]],
              !.processes = <<>>]

\* stop_all (lines 163-183): every process of the list gets SIGTERM; the
\* ones of slow have not ended after 5 seconds and are killed.
stop_all(s, slow) ==
    [s EXCEPT !.running = FALSE,
              !.children = [p \in 1..Len(s.children) |->
                               IF p \in Alive(s)
                               THEN [s.children[p] EXCEPT !.state =
                                        IF p \in slow THEN "killed"
                                        ELSE "terminated"]
                               ELSE s.children[p]],
              !.processes = <<>>]

Without(list, entry) == SelectSeq(list, LAMBDA e : e # entry)

\* Lines 273-290 over the copy of the list, from its entry i on: an entry
\* whose process has ended is removed and the start method of its name is
\* called, which fails for the names of failing.
RECURSIVE Restarts(_, _, _, _)
Restarts(s, copy, i, failing) ==
    IF i > Len(copy) THEN s
    ELSE LET entry == copy[i]
             removed == [s EXCEPT !.processes = Without(@, entry)]
         IN  IF s.children[entry.process].state = "running"
             THEN Restarts(s, copy, i + 1, failing)
             ELSE IF entry.name \in failing
             THEN Restarts(removed, copy, i + 1, failing)
             ELSE Restarts(Popen(removed, entry.name), copy, i + 1, failing)

\* start_all, lines 203-213: check_files.
CheckFiles ==
    /\ starter.at = "check"
    /\ \E ok \in BOOLEAN :
         starter' = [starter EXCEPT !.at = IF ok THEN "pull" ELSE "returned"]
    /\ UNCHANGED <<monitors, folder, last_processed, processing_lock, is_busy,
                   consecutive_empty, heartbeat_due, pc, new_images, batch_pos,
                   max_count, api_reply, live_status, history, api_calls, appended,
                   check_interval, sleep_for, now, last_heartbeat, writable,
                   dashboard, main_pc, config_file, loaded, downloader>>

\* start_all, lines 216-220, after start_pull_api has returned started.
StartPullApi(s, started) ==
    IF started THEN [Popen(s, Components[1]) EXCEPT !.at = "face"]
    ELSE [s EXCEPT !.at = "face"]

\* start_all, lines 223-229, after start_face_monitor has returned started.
StartFaceMonitor(s, started, slow) ==
    IF started THEN [Popen(s, Components[2]) EXCEPT !.at = "web"]
    ELSE [stop_all(s, slow) EXCEPT !.at = "returned"]

\* start_all, lines 232-235 and 269, after start_web_dashboard has returned
\* started.
StartWebDashboard(s, started, slow) ==
    IF started THEN [Popen(s, Components[3]) EXCEPT !.at = "watch"]
    ELSE [stop_all(s, slow) EXCEPT !.at = "returned"]

\* start_all from line 216 to the loop, one start method per step.
StartUp ==
    /\ \E started \in BOOLEAN : \E slow \in SUBSET (1..Len(starter.children)) :
         \/ /\ starter.at = "pull"
            /\ starter' = StartPullApi(starter, started)
         \/ /\ starter.at = "face"
            /\ starter' = StartFaceMonitor(starter, started, slow)
         \/ /\ starter.at = "web"
            /\ starter' = StartWebDashboard(starter, started, slow)
    /\ UNCHANGED <<monitors, folder, last_processed, processing_lock, is_busy,
                   consecutive_empty, heartbeat_due, pc, new_images, batch_pos,
                   max_count, api_reply, live_status, history, api_calls, appended,
                   check_interval, sleep_for, now, last_heartbeat, writable,
                   dashboard, main_pc, config_file, loaded, downloader>>

\* One iteration of the loop of lines 269-295.
Supervise(s, failing) ==
    LET after == Restarts(s, s.processes, 1, failing)
    IN  [after EXCEPT !.at = IF after.processes = <<>> THEN "returned"
                             ELSE "watch"]

Watch ==
    /\ starter.at = "watch"
    /\ starter.running
    /\ Len(starter.children) + Len(starter.processes) <= MaxChildren
    /\ \E failing \in SUBSET { Components[i] : i \in 1..3 } :
         starter' = Supervise(starter, failing)
    /\ UNCHANGED <<monitors, folder, last_processed, processing_lock, is_busy,
                   consecutive_empty, heartbeat_due, pc, new_images, batch_pos,
                   max_count, api_reply, live_status, history, api_calls, appended,
                   check_interval, sleep_for, now, last_heartbeat, writable,
                   dashboard, main_pc, config_file, loaded, downloader>>

\* A child process ends by itself.
ChildExits(p) ==
    /\ starter.children[p].state = "running"
    /\ starter' = [starter EXCEPT !.children[p].state = "exited"]
    /\ UNCHANGED <<monitors, folder, last_processed, processing_lock, is_busy,
                   consecutive_empty, heartbeat_due, pc, new_images, batch_pos,
                   max_count, api_reply, live_status, history, api_calls, appended,
                   check_interval, sleep_for, now, last_heartbeat, writable,
                   dashboard, main_pc, config_file, loaded, downloader>>

\* signal_handler (lines 157-161), installed by lines 212-213: SIGINT or
\* SIGTERM arrives, stop_all runs and sys.exit ends the starter.
signal_handler ==
    /\ starter.at \in {"pull", "face", "web", "watch"}
    /\ \E slow \in SUBSET (1..Len(starter.children)) :
         starter' = [stop_all(starter, slow) EXCEPT !.at = "exited"]
    /\ UNCHANGED <<monitors, folder, last_processed, processing_lock, is_busy,
                   consecutive_empty, heartbeat_due, pc, new_images, batch_pos,
                   max_count, api_reply, live_status, history, api_calls, appended,
                   check_interval, sleep_for, now, last_heartbeat, writable,
                   dashboard, main_pc, config_file, loaded, downloader>>

----------------------------------------------------------------------------
(* The monitor system with one enabled camera *)

\* SimpleMonitorSystem.__init__ and the locals of run_loop before its loop.
Constructed(on) ==
    /\ monitors = on
    /\ consecutive_empty = [c \in Cameras |-> 0]
    /\ heartbeat_due = [c \in Cameras |-> TRUE]
    /\ max_count = [c \in Cameras |-> BatchCap]
    /\ loaded = [c \in Cameras |-> <<>>]
    /\ downloader = MultiCameraDownloader(ExampleConfig, NoImages)
    /\ starter = ESP32SystemStarter

\* No monitor is inside a batch.
NoBatch ==
    /\ processing_lock = [c \in Cameras |-> FALSE]
    /\ is_busy = [c \in Cameras |-> FALSE]
    /\ new_images = [c \in Cameras |-> <<>>]
    /\ batch_pos = [c \in Cameras |-> 0]
    /\ api_reply = [c \in Cameras |-> TimeoutRaised]

\* What surrounds the monitors: the check_interval of the configuration, the
\* clock at StartClock, files that can be written, a dashboard that has not
\* asked yet.
Settings(interval) ==
    /\ check_interval = [c \in Cameras |-> interval]
    /\ now = StartClock
    /\ last_heartbeat = [c \in Cameras |-> 0]
    /\ writable = [status |-> TRUE, history |-> TRUE]
    /\ dashboard = NotAsked

\* main() has read a configuration, started the threads and waits.
Running(interval) ==
    /\ main_pc = "wait"
    /\ config_file = ValidConfig
    /\ Settings(interval)

\* The threads of start() have not run yet.
Created ==
    /\ last_processed = [c \in Cameras |-> None]
    /\ pc = [c \in Cameras |-> "start"]
    /\ api_calls = [c \in Cameras |-> <<>>]
    /\ sleep_for = [c \in Cameras |-> 0]

\* Every monitor is at the top of its loop with its cursor at last.
ScanReady(last) ==
    /\ last_processed = [c \in Cameras |-> IF c \in monitors THEN last ELSE None]
    /\ pc = [c \in Cameras |-> IF c \in monitors THEN "top" ELSE "start"]
    /\ api_calls = [c \in Cameras |->
                       IF c \in monitors /\ last # None THEN <<last>> ELSE <<>>]
    /\ sleep_for = [c \in Cameras |->
                       IF c \in monitors /\ last # None
                       THEN Delay(0, check_interval[c]) ELSE 0]

\* Every monitor has sent the image file and waits in recognize_face.
InFlight(file) ==
    /\ processing_lock = [c \in Cameras |-> c \in monitors]
    /\ is_busy = [c \in Cameras |-> c \in monitors]
    /\ new_images = [c \in Cameras |-> IF c \in monitors THEN <<file>> ELSE <<>>]
    /\ batch_pos = [c \in Cameras |-> IF c \in monitors THEN 1 ELSE 0]
    /\ pc = [c \in Cameras |-> IF c \in monitors THEN "await" ELSE "start"]
    /\ api_calls = [c \in Cameras |-> IF c \in monitors THEN <<file>> ELSE <<>>]
    /\ sleep_for = [c \in Cameras |-> 0]
    /\ live_status = update_live_status("ESP32-001", "processing", "Verarbeite", 0,
                                        <<>>, file)

Init ==
    /\ Constructed({"ESP32-001"})
    /\ Running(DefaultInterval)
    /\ NoBatch
    /\ Created
    /\ folder = [c \in Cameras |-> <<>>]
    /\ live_status = NoStatus
    /\ history = <<>>
    /\ appended = <<>>

Worker(c) ==
    \/ StartLoop(c)
    \/ ScanEmpty(c, BatchCap, MaxEmpty)
    \/ ScanBatch(c, BatchCap)
    \/ SkipBusy(c)
    \/ Wake(c)
    \/ BeginImage(c)
    \/ FinishImage(c)
    \/ FinishImageRaises(c)

Next ==
    \/ \E c \in Cameras : \E size \in ArrivalSizes : FileArrives(c, size)
    \/ TimePasses
    \/ \E c \in Cameras : HeartbeatTimer(c)
    \/ \E c \in Cameras : Worker(c)

Spec == Init /\ [][Next]_vars

----------------------------------------------------------------------------
(* get_newest_images on any folder content, cursor and max_count *)

FileProfiles ==
    { [age |-> 1000, size |-> 4000], [age |-> 100, size |-> 4000],
      [age |-> MinAgeMs, size |-> MinSize + 1], [age |-> MinAgeMs, size |-> MinSize],
      [age |-> 1000, size |-> MinSize - 1], [age |-> MinAgeMs - 1, size |-> MinSize + 1] }

Folders == UNION { [D -> FileProfiles] : D \in SUBSET Files }

\* A monitor at the top of its loop, after earlier iterations that left the
\* cursor at any file: one that is gone, or one that was old and large enough.
InitScan ==
    /\ Constructed({"ESP32-001"})
    /\ Running(DefaultInterval)
    /\ NoBatch
    /\ \E dir \in Folders : folder = [c \in Cameras |->
                                        IF c \in monitors THEN dir ELSE <<>>]
    /\ \E last \in {None} \cup Files :
          /\ \A c \in monitors :
                last \in DOMAIN folder[c] =>
                    /\ folder[c][last].age >= MinAgeMs
                    /\ folder[c][last].size > MinSize
          /\ live_status =
                IF last = None
                THEN update_live_status("ESP32-001", "gray", "System gestartet", 0,
                                        <<>>, None)
                ELSE update_live_status("ESP32-001", "gray",
                                        "Keine Gesichter erkannt", 0, <<>>, last)
          /\ appended = <<>>
          /\ history = <<>>
          /\ ScanReady(last)

NextScan ==
    \E c \in Cameras : \E cap \in 1..BatchCap :
        \/ ScanEmpty(c, cap, MaxEmpty)
        \/ ScanBatch(c, cap)

SpecScan == InitScan /\ [][NextScan]_vars

----------------------------------------------------------------------------
(* process_image on any success body of up to ResultLimit faces *)

SubjectEntries ==
    { [subject |-> n, similarity |-> v] :
          n \in {"alice", "bob"}, v \in {Threshold - 1, Threshold} }
    \cup { Alice, Nameless, [subject |-> "bob"] }

SeqsUpTo(S, lo, hi) == UNION { [1..n -> S] : n \in lo..hi }

FaceBodies ==
    SeqsUpTo({ Face(subjects) : subjects \in SeqsUpTo(SubjectEntries, 0, MaxSubjects) },
             1, ResultLimit)

\* A monitor waiting for the answer to its first image.
InitFace ==
    /\ Constructed({"ESP32-001"})
    /\ Running(DefaultInterval)
    /\ folder = [c \in Cameras |->
                    IF c \in monitors
                    THEN (1 :> [age |-> MinAgeMs, size |-> MinSize + 1]) ELSE <<>>]
    /\ last_processed = [c \in Cameras |-> None]
    /\ \E faces \in FaceBodies :
          api_reply = [c \in Cameras |->
                          IF c \in monitors
                          THEN HttpResponse(200, FALSE, Dict(faces))
                          ELSE TimeoutRaised]
    /\ InFlight(1)
    /\ history = <<>>
    /\ appended = <<>>

NextFace ==
    \E c \in Cameras : FinishImage(c) \/ FinishImageRaises(c)

SpecFace == InitFace /\ [][NextFace]_vars

----------------------------------------------------------------------------
(* The history file near its cap: recognition_results.json outlives the process *)

Earlier(n) ==
    [i \in 1..n |-> HistoryEntry("ESP32-001", i - n - 1, <<"alice">>)]

InitHist ==
    /\ Constructed({"ESP32-001"})
    /\ Running(DefaultInterval)
    /\ NoBatch
    /\ Created
    /\ folder = [c \in Cameras |->
                    IF c \in monitors
                    THEN [f \in Files |-> [age |-> MinAgeMs, size |-> MinSize + 1]]
                    ELSE <<>>]
    /\ live_status = NoStatus
    /\ \E n \in {0, HistoryCap - 1, HistoryCap} : history = Earlier(n)
    /\ appended = history

NextHist ==
    \E c \in Cameras : Worker(c)

SpecHist == InitHist /\ [][NextHist]_vars

----------------------------------------------------------------------------
(* One monitor with the clock followed: the sleeps take their argument, the *)
(* steps of an iteration take no time                                        *)

CheckIntervals == {500, 1000, 1500, 2000}

\* time.sleep returns after sleep_for ms and line 279 reads the clock; the
\* comparison of line 302 is made with that reading.  MaxClock ends the run.
SleepElapses(c) ==
    /\ c \in monitors
    /\ pc[c] = "sleep"
    /\ now + sleep_for[c] <= StartClock + MaxClock
    /\ now' = now + sleep_for[c]
    /\ heartbeat_due' = [heartbeat_due EXCEPT
                            ![c] = now' - last_heartbeat[c] > HeartbeatEvery]
    /\ pc' = [pc EXCEPT ![c] = "top"]
    /\ UNCHANGED <<monitors, folder, last_processed, processing_lock, is_busy,
                   consecutive_empty, new_images, batch_pos, max_count, api_reply,
                   live_status, history, loaded, api_calls, appended, check_interval,
                   sleep_for, last_heartbeat, writable, dashboard, main_pc,
                   config_file, downloader, starter>>

\* A monitor whose folder is empty, or holds one image, when its thread starts.
InitIdle ==
    /\ Constructed({"ESP32-001"})
    /\ \E interval \in CheckIntervals : Running(interval)
    /\ NoBatch
    /\ Created
    /\ \E dir \in {<<>>, <<[age |-> MinAgeMs, size |-> MinSize + 1]>>} :
          folder = [c \in Cameras |-> IF c \in monitors THEN dir ELSE <<>>]
    /\ live_status = NoStatus
    /\ history = <<>>
    /\ appended = <<>>

NextIdle ==
    \E c \in Cameras :
        \/ StartLoop(c)
        \/ ScanEmpty(c, BatchCap, MaxTicks)
        \/ ScanBatch(c, BatchCap)
        \/ SkipBusy(c)
        \/ SleepElapses(c)
        \/ BeginImage(c)
        \/ FinishImage(c)
        \/ FinishImageRaises(c)

SpecIdle == InitIdle /\ [][NextIdle]_vars

\* The same monitor with check_interval 1.5 s and a folder that is empty when
\* the thread starts; the producer stores one image at any time.
InitBeat ==
    /\ InitIdle
    /\ check_interval = [c \in Cameras |-> DefaultInterval]
    /\ folder = [c \in Cameras |-> <<>>]

NextBeat ==
    \/ NextIdle
    \/ \E c \in Cameras : DOMAIN folder[c] = {} /\ FileArrives(c, MinSize + 1)
    \/ TimePasses

SpecBeat == InitBeat /\ [][NextBeat]_vars

----------------------------------------------------------------------------
(* live_status.json between open and close, and the dashboard reading it *)

\* update_live_status has built the record and opened the file for writing
\* (line 228), which truncates it; json.dump reaches the file when the with
\* block closes it, at the end of the step that publishes.  The calls of
\* lines 275, 123, 137-177 and 338 are covered.
OpenStatusFile(c) ==
    /\ c \in monitors
    /\ pc[c] \in {"start", "process", "await"}
    /\ writable.status
    /\ live_status # EmptyFile
    /\ live_status' = EmptyFile
    /\ UNCHANGED <<monitors, folder, last_processed, processing_lock, is_busy,
                   consecutive_empty, heartbeat_due, pc, new_images, batch_pos,
                   max_count, api_reply, history, loaded, api_calls, appended,
                   check_interval, sleep_for, now, last_heartbeat, writable,
                   dashboard, main_pc, config_file, downloader, starter>>

\* A request to the dashboard calls get_latest_status.
DashboardAsks ==
    /\ \E fresh \in BOOLEAN : dashboard' = get_latest_status(live_status, fresh)
    /\ UNCHANGED <<monitors, folder, last_processed, processing_lock, is_busy,
                   consecutive_empty, heartbeat_due, pc, new_images, batch_pos,
                   max_count, api_reply, live_status, history, loaded, api_calls, appended,
                   check_interval, sleep_for, now, last_heartbeat, writable,
                   main_pc, config_file, downloader, starter>>

\* The images of the folder are there when the thread starts.
InitPublish ==
    /\ InitHist
    /\ history = <<>>

NextPublish ==
    \/ \E c \in Cameras : Worker(c)
    \/ \E c \in Cameras : OpenStatusFile(c)
    \/ DashboardAsks

SpecPublish == InitPublish /\ [][NextPublish]_vars

----------------------------------------------------------------------------
(* The process from main() on, with any api-config.yaml *)

\* main() has not run; the folder of ESP32-001 holds its images.
InitStartup ==
    /\ Constructed({})
    /\ main_pc = "main"
    /\ config_file \in ConfigFiles
    /\ Settings(DefaultInterval)
    /\ NoBatch
    /\ Created
    /\ folder = [c \in Cameras |->
                    IF c = "ESP32-001"
                    THEN [f \in Files |-> [age |-> MinAgeMs, size |-> MinSize + 1]]
                    ELSE <<>>]
    /\ live_status = NoStatus
    /\ history = <<>>
    /\ appended = <<>>

NextStartup ==
    \/ Main
    \/ KeyboardInterrupt
    \/ \E c \in Cameras : Worker(c)

SpecStartup == InitStartup /\ [][NextStartup]_vars

----------------------------------------------------------------------------
(* The monitor while live_status.json or recognition_results.json cannot be *)
(* written at times                                                          *)

\* The disk fills up or has room again, a file is locked or released.
DiskChanges ==
    /\ \E can \in [status : BOOLEAN, history : BOOLEAN] :
          can # writable /\ writable' = can
    /\ UNCHANGED <<monitors, folder, last_processed, processing_lock, is_busy,
                   consecutive_empty, heartbeat_due, pc, new_images, batch_pos,
                   max_count, api_reply, live_status, history, loaded, api_calls, appended,
                   check_interval, sleep_for, now, last_heartbeat, dashboard,
                   main_pc, config_file, downloader, starter>>

NextDisk ==
    \/ \E c \in Cameras : Worker(c)
    \/ DiskChanges

SpecDisk == InitPublish /\ [][NextDisk]_vars

----------------------------------------------------------------------------
(* Two enabled cameras: start() runs one thread per monitor (lines 387-398). *)
(* Both monitors write live_status.json and recognition_results.json of the  *)
(* working directory; a thread can be preempted between the read and the     *)
(* write of save_to_history.                                                 *)

TwoCameras ==
    Document({"compreface", "cameras"}, "http://localhost:8000", Cameras)

\* process_image stores a named recognition (result.save).
Saves(c) ==
    LET out == ReadResult(recognize_face(api_reply[c]))
    IN  ~out.raised /\ out.save /\ writable.history

\* Lines 153-163 and 236-251: the green status is published, save_to_history
\* builds its entry and reads recognition_results.json into all_results.
LoadHistory(c) ==
    LET out == ReadResult(recognize_face(api_reply[c]))
    IN  /\ c \in monitors
        /\ pc[c] = "await"
        /\ Saves(c)
        /\ live_status' \in StatusFileAfter(
                update_live_status(c, out.status, out.message, out.detail,
                                   out.recognized, CurrentImage(c)))
        /\ loaded' = [loaded EXCEPT ![c] = history]
        /\ pc' = [pc EXCEPT ![c] = "save"]
        /\ UNCHANGED <<monitors, folder, last_processed, processing_lock,
                       is_busy, consecutive_empty, heartbeat_due, new_images,
                       batch_pos, max_count, api_reply, history, api_calls,
                       appended>>
        /\ UNCHANGED <<check_interval, sleep_for, now, last_heartbeat, writable,
                       dashboard, main_pc, config_file, downloader, starter>>

\* Lines 253-261 and 180: the entry is appended to what was read, the last 50
\* are written over the file, and process_image returns; after the last image
\* of the batch the rest of the iteration follows (lines 297, 310, 314,
\* 318-321).
StoreHistory(c) ==
    LET result == recognize_face(api_reply[c])
        out == ReadResult(result)
        entry == HistoryEntry(c, CurrentImage(c), out.recognized)
        last == batch_pos[c] = Len(new_images[c])
    IN  /\ c \in monitors
        /\ pc[c] = "save"
        /\ history' = save_to_history(loaded[c], entry)
        /\ appended' = Append(appended, entry)
        /\ loaded' = [loaded EXCEPT ![c] = <<>>]
        /\ last_processed' = [last_processed EXCEPT ![c] = NextCursor(c, result)]
        /\ IF last
           THEN /\ consecutive_empty' = [consecutive_empty EXCEPT ![c] = 0]
                /\ is_busy' = [is_busy EXCEPT ![c] = FALSE]
                /\ processing_lock' = release(processing_lock, c)
                /\ new_images' = [new_images EXCEPT ![c] = <<>>]
                /\ batch_pos' = [batch_pos EXCEPT ![c] = 0]
                /\ sleep_for' = [sleep_for EXCEPT
                                   ![c] = Delay(0, check_interval[c])]
                /\ pc' = [pc EXCEPT ![c] = "sleep"]
           ELSE /\ batch_pos' = [batch_pos EXCEPT ![c] = @ + 1]
                /\ pc' = [pc EXCEPT ![c] = "process"]
                /\ UNCHANGED <<consecutive_empty, is_busy, processing_lock,
                               new_images, sleep_for>>
        /\ UNCHANGED <<monitors, folder, heartbeat_due, max_count, api_reply,
                       live_status, api_calls>>
        /\ UNCHANGED <<check_interval, now, last_heartbeat, writable,
                       dashboard, main_pc, config_file, downloader, starter>>

\* One file waits in the folder of each camera.
InitTwo ==
    /\ Constructed(Cameras)
    /\ main_pc = "wait"
    /\ config_file = TwoCameras
    /\ Settings(DefaultInterval)
    /\ NoBatch
    /\ Created
    /\ folder = [c \in Cameras |->
                    [f \in {1} |-> [age |-> MinAgeMs, size |-> MinSize + 1]]]
    /\ live_status = NoStatus
    /\ history = <<>>
    /\ appended = <<>>

ThreadOf(c) ==
    \/ StartLoop(c)
    \/ ScanEmpty(c, BatchCap, MaxEmpty)
    \/ ScanBatch(c, BatchCap)
    \/ SkipBusy(c)
    \/ Wake(c)
    \/ BeginImage(c)
    \/ FinishImage(c) /\ ~Saves(c)
    \/ LoadHistory(c)
    \/ StoreHistory(c)
    \/ FinishImageRaises(c)

NextTwo ==
    \E c \in Cameras : ThreadOf(c)

SpecTwo == InitTwo /\ [][NextTwo]_vars

----------------------------------------------------------------------------
(* The polling loop under fair scheduling, the service answering every       *)
(* request with a response process_image can read or with an error           *)

\* recognize_face returns a result on which process_image does not raise.
BeginImageAnswered(c) ==
    /\ BeginImage(c)
    /\ ~ReadResult(recognize_face(api_reply'[c])).raised

ThreadLive(c) ==
    \/ StartLoop(c)
    \/ ScanEmpty(c, BatchCap, MaxEmpty)
    \/ ScanBatch(c, BatchCap)
    \/ Wake(c)
    \/ BeginImageAnswered(c)
    \/ FinishImage(c)

\* The producer stores images of more than 3000 bytes, MaxLiveFiles at most.
NextLive ==
    \/ \E c \in Cameras : /\ Cardinality(DOMAIN folder[c]) < MaxLiveFiles
                          /\ FileArrives(c, MinSize + 1)
    \/ TimePasses
    \/ \E c \in Cameras : ThreadLive(c)

\* The operating system runs the thread again and again, and time passes.
FairLive ==
    /\ WF_vars(TimePasses)
    /\ WF_vars(ThreadLive("ESP32-001"))

SpecLive == Init /\ [][NextLive]_vars /\ FairLive

----------------------------------------------------------------------------
(* The monitor on a folder whose files carry any modification times: a file  *)
(* can be younger than one whose name sorts after it                          *)

\* Files of 4000 bytes, written 0.1 s or 1 s ago.
AgedFolders ==
    UNION { [1..n -> {[age |-> 100, size |-> 4000], [age |-> 1000, size |-> 4000]}] :
              n \in 0..MaxFiles }

InitAges ==
    /\ Constructed({"ESP32-001"})
    /\ Running(DefaultInterval)
    /\ NoBatch
    /\ \E dir \in AgedFolders :
          folder = [c \in Cameras |-> IF c \in monitors THEN dir ELSE <<>>]
    /\ live_status = NoStatus
    /\ history = <<>>
    /\ appended = <<>>
    /\ Created

NextAges ==
    \/ \E c \in Cameras : Worker(c)
    \/ TimePasses

SpecAges == InitAges /\ [][NextAges]_vars

----------------------------------------------------------------------------
(* The monitor while the producer's cleanup deletes a file that glob has     *)
(* listed, before getmtime or getsize reads it                                *)

\* Lines 99-110 when the listed file gone no longer exists: getmtime raises at
\* the first file after the cursor that is gone.
RECURSIVE ScanLoopLosing(_, _, _, _, _, _, _)
ScanLoopLosing(files, dir, last, found, new_files, cap, gone) ==
    IF files = <<>> THEN [raised |-> FALSE, new_files |-> new_files]
    ELSE LET file_path == Head(files)
             rest == Tail(files)
         IN  IF last # None /\ file_path = last
             THEN ScanLoopLosing(rest, dir, last, TRUE, new_files, cap, gone)
             ELSE IF AfterCursor(last, found, file_path)
                  THEN IF file_path = gone
                       THEN [raised |-> TRUE, new_files |-> new_files]
                       ELSE IF Qualifies(dir, file_path)
                            THEN LET grown == Append(new_files, file_path)
                                 IN  IF BatchFull(grown, cap)
                                     THEN [raised |-> FALSE, new_files |-> grown]
                                     ELSE ScanLoopLosing(rest, dir, last, found,
                                                         grown, cap, gone)
                            ELSE ScanLoopLosing(rest, dir, last, found, new_files,
                                                cap, gone)
                  ELSE ScanLoopLosing(rest, dir, last, found, new_files, cap, gone)

scan_error_KeepsFound(new_files) ==
    new_files

\* Lines 114-116: the except clause logs and returns the empty list.
scan_error(new_files) ==
    <<>>

\* An iteration whose scan raises inside get_newest_images at the file gone,
\* which the producer has deleted since glob listed it (pull.py, lines
\* 149-169); the rest of the iteration follows what the scan returned (lines
\* 288-330).
ScanFails(c, cap, most) ==
    \E gone \in DOMAIN folder[c] :
        LET scan == ScanLoopLosing(Sorted(DOMAIN folder[c]), folder[c],
                                   last_processed[c], FALSE, <<>>, cap, gone)
            found == scan_error(scan.new_files)
        IN  /\ c \in monitors
            /\ pc[c] = "top"
            /\ ~processing_lock[c]
            /\ ~is_busy[c]
            /\ scan.raised
            /\ consecutive_empty[c] < most
            /\ folder' = [folder EXCEPT
                            ![c] = [f \in DOMAIN folder[c] \ {gone} |-> folder[c][f]]]
            /\ max_count' = [max_count EXCEPT ![c] = cap]
            /\ IF found = <<>>
               THEN /\ consecutive_empty' = [consecutive_empty EXCEPT ![c] = @ + 1]
                    /\ IF heartbeat_due[c]
                       THEN /\ live_status' \in StatusFileAfter(
                                    update_live_status(c, "gray", "Ueberwache",
                                        consecutive_empty[c] + 1, <<>>, None))
                            /\ heartbeat_due' = [heartbeat_due EXCEPT ![c] = FALSE]
                            /\ last_heartbeat' = [last_heartbeat EXCEPT ![c] = now]
                       ELSE UNCHANGED <<live_status, heartbeat_due, last_heartbeat>>
                    /\ sleep_for' = [sleep_for EXCEPT
                           ![c] = Delay(consecutive_empty[c] + 1, check_interval[c])]
                    /\ new_images' = [new_images EXCEPT ![c] = <<>>]
                    /\ batch_pos' = [batch_pos EXCEPT ![c] = 0]
                    /\ pc' = [pc EXCEPT ![c] = "sleep"]
                    /\ UNCHANGED <<processing_lock, is_busy>>
               ELSE /\ processing_lock' = [processing_lock EXCEPT ![c] = TRUE]
                    /\ is_busy' = [is_busy EXCEPT ![c] = TRUE]
                    /\ new_images' = [new_images EXCEPT ![c] = found]
                    /\ batch_pos' = [batch_pos EXCEPT ![c] = 1]
                    /\ pc' = [pc EXCEPT ![c] = "process"]
                    /\ UNCHANGED <<consecutive_empty, live_status, heartbeat_due,
                                   last_heartbeat, sleep_for>>
            /\ UNCHANGED <<monitors, last_processed, api_reply, history, loaded,
                           api_calls, appended, check_interval, now, writable,
                           dashboard, main_pc, config_file, downloader, starter>>

NextLoss ==
    \E c \in Cameras :
        \/ Worker(c)
        \/ ScanFails(c, BatchCap, MaxEmpty)

SpecLoss == InitPublish /\ [][NextLoss]_vars

----------------------------------------------------------------------------
(* The image producer under any calls of start, stop and reload_config *)

NextProducer ==
    \/ Start
    \/ Stop
    \/ StopReturns
    \/ ReloadConfig
    \/ ReloadRestarts
    \/ \E t \in 1..Len(downloader.threads) : DownloadThread(t)

SpecProducer == Init /\ [][NextProducer]_vars

----------------------------------------------------------------------------
(* The image producer started once, on folders an earlier run left behind, *)
(* with any retention cap                                                  *)

LeftOver == { 1..k : k \in 0..MaxLeft }

InitRetention ==
    /\ monitors = {}
    /\ consecutive_empty = [c \in Cameras |-> 0]
    /\ heartbeat_due = [c \in Cameras |-> TRUE]
    /\ max_count = [c \in Cameras |-> BatchCap]
    /\ loaded = [c \in Cameras |-> <<>>]
    /\ starter = ESP32SystemStarter
    /\ \E config \in PullConfigs : \E left \in [PullCameras -> LeftOver] :
         /\ config.enabled # <<>>
         /\ downloader = MultiCameraDownloader(config, left)
    /\ Running(DefaultInterval)
    /\ NoBatch
    /\ Created
    /\ folder = [c \in Cameras |-> <<>>]
    /\ live_status = NoStatus
    /\ history = <<>>
    /\ appended = <<>>

NextRetention ==
    \/ Start
    \/ \E t \in 1..Len(downloader.threads) : DownloadThread(t)

SpecRetention == InitRetention /\ [][NextRetention]_vars

----------------------------------------------------------------------------
(* The system starter and its child processes *)

NextStarter ==
    \/ CheckFiles
    \/ StartUp
    \/ Watch
    \/ \E p \in 1..Len(starter.children) : ChildExits(p)
    \/ signal_handler

SpecStarter == Init /\ [][NextStarter]_vars

----------------------------------------------------------------------------
(* Vocabulary of the properties *)

Last(seq) == seq[Len(seq)]

NoRepeat(seq) == \A i, j \in 1..Len(seq) : i # j => seq[i] # seq[j]

\* seq lists, in ascending order, the n smallest members of S (all if fewer)
IsFirstOf(seq, S, n) ==
    /\ \A i, j \in 1..Len(seq) : i < j => seq[i] < seq[j]
    /\ {seq[k] : k \in 1..Len(seq)} = {f \in S : Cardinality({g \in S : g < f}) < n}

\* The worker of c has left process_image in this step.
Finishes(c) == pc[c] = "await" /\ pc'[c] # "await"

\* The greatest similarity among the subjects of a face (missing: 0).
TopSimilarity(face) ==
    LET sims == {Similarity(face.subjects[k]) : k \in 1..Len(face.subjects)}
    IN  CHOOSE v \in sims : \A w \in sims : w <= v

IsNamedFace(face) ==
    Len(face.subjects) > 0 /\ TopSimilarity(face) >= 7000

NamesOf(faces) ==
    LET named == SelectSeq(faces, IsNamedFace)
    IN  [k \in 1..Len(named) |-> Best(named[k].subjects).subject]

\* A success body process_image cannot read: not an object, or a named face
\* whose best subject carries no name.
Unreadable(body) ==
    \/ body.type # "dict"
    \/ \E k \in 1..Len(body.result) :
          /\ IsNamedFace(body.result[k])
          /\ "subject" \notin DOMAIN Best(body.result[k].subjects)

\* The ClassificationResult of what a request meets.  A send that exceeds the
\* timeout reaches recognize_face as a ConnectionError naming TimeoutError: it
\* is a request exceeding the timeout.
ResultTag(reply) ==
    IF reply.kind = "timeout" THEN "Timeout"
    ELSE IF reply.kind = "exception"
    THEN (IF reply.text = WriteTimeoutText THEN "Timeout" ELSE "ServiceError")
    ELSE IF reply.status_code # 200
    THEN (IF reply.no_face_text THEN "NoFace" ELSE "ServiceError")
    ELSE IF reply.json.type = "invalid" THEN "ServiceError"
    ELSE IF Unreadable(reply.json) THEN "Unreadable"
    ELSE IF Len(reply.json.result) = 0 THEN "NoFace"
    ELSE IF \E k \in 1..Len(reply.json.result) : IsNamedFace(reply.json.result[k])
    THEN "Recognized"
    ELSE "UnknownFace"

Colour(tag) ==
    CASE tag = "Recognized" -> "green"
      [] tag = "UnknownFace" -> "red"
      [] tag = "NoFace" -> "gray"
      [] tag = "Timeout" -> "gray"
      [] tag = "ServiceError" -> "red"

----------------------------------------------------------------------------
(* Properties *)

\* C1: in every step of a monitor (empty scans, batches with any result,
\* iterations that raise) last_processed is not set to a path that sorts before
\* its previous value, and it does not return to None once set.
C1_CursorNeverRewinds ==
    [][\A c \in Cameras :
          /\ last_processed'[c] >= last_processed[c]
          /\ last_processed[c] # None => last_processed'[c] # None]_vars

\* C1: a monitor whose cursor is set, after an empty scan and an iteration
\* that raised.
C1_Witness ==
    \E c \in Cameras :
        /\ last_processed[c] # None
        /\ consecutive_empty[c] > 0
        /\ is_busy[c] /\ ~processing_lock[c] /\ pc[c] = "sleep"

\* C2: no path is passed to recognize_face more than once, and after a poll
\* that submitted files the cursor is the path of the last file submitted.
C2_OnceAndCursorAtLastSubmitted ==
    \A c \in Cameras :
        /\ NoRepeat(api_calls[c])
        /\ (pc[c] \in {"sleep", "top"} /\ api_calls[c] # <<>>)
              => last_processed[c] = Last(api_calls[c])

\* C3: when process_image has handled a candidate whose request ended in
\* ServiceError or Timeout the cursor is that candidate's path, and a scan
\* returns only files after the cursor, so never that file again.
C3_FailedFileIsPassed ==
    [][\A c \in Cameras :
          /\ (Finishes(c) /\ ResultTag(api_reply[c]) \in {"ServiceError", "Timeout"})
                => last_processed'[c] = CurrentImage(c)
          /\ pc[c] = "top"
                => \A k \in 1..Len(new_images'[c]) :
                       new_images'[c][k] > last_processed[c]]_vars

\* C3: the last image ended in a service error, the cursor is at it, and a
\* later scan found nothing.
C3_Witness ==
    \E c \in Cameras :
        /\ live_status.message = "API Fehler"
        /\ live_status.image_file = last_processed[c]
        /\ last_processed[c] >= 2
        /\ ResultTag(api_reply[c]) = "ServiceError"
        /\ consecutive_empty[c] > 0

C5_NoFreshNoSmall ==
    \A c \in monitors :
        pc[c] \in {"process", "sleep"} =>
            /\ \A k \in 1..Len(new_images[c]) :
                  /\ folder[c][new_images[c][k]].age >= 500
                  /\ folder[c][new_images[c][k]].size >= 3000
            /\ ( /\ folder[c] = <<[age |-> 1000, size |-> 4000],
                                  [age |-> 100, size |-> 4000]>>
                 /\ last_processed[c] = None
                 /\ max_count[c] = 3 )
                  => new_images[c] = <<1>>

\* C5: the scan of the example has returned.
C5_Witness ==
    \E c \in monitors :
        /\ folder[c] = <<[age |-> 1000, size |-> 4000], [age |-> 100, size |-> 4000]>>
        /\ last_processed[c] = None
        /\ max_count[c] = 3
        /\ pc[c] = "process"
        /\ new_images[c] = <<1>>

\* C6: a batch holds at most max_count candidates, 3 in the loop, however many
\* files qualify, and within one cycle at most that many images are processed.
C6_BatchCap ==
    \A c \in Cameras :
        /\ max_count[c] = 3
        /\ Len(new_images[c]) <= max_count[c]
        /\ batch_pos[c] <= max_count[c]

\* C6: a full batch while more than max_count files qualify.
C6_Witness ==
    \E c \in Cameras :
        /\ Len(new_images[c]) = 3
        /\ batch_pos[c] = 3
        /\ Cardinality({f \in DOMAIN folder[c] :
                           /\ folder[c][f].age >= 500
                           /\ folder[c][f].size > 3000}) > 3

\* C7: the history holds at most 50 entries, and they are the most recent of
\* all entries it received, in the order received: an append to a full log
\* drops the oldest entry and puts the new one last.
C7_HistoryBounded ==
    /\ Len(history) <= 50
    /\ Len(history) = (IF Len(appended) < 50 THEN Len(appended) ELSE 50)
    /\ \A k \in 1..Len(history) :
          history[k] = appended[Len(appended) - Len(history) + k]

\* C7: entries were appended to a log that already held 50.
C7_Witness ==
    /\ Len(appended) >= 52
    /\ Len(history) = 50
    /\ Last(history).image > 0
    /\ history[1] = appended[Len(appended) - 49]

\* C8: after an image with a readable success body, the faces counted as named
\* are those whose best similarity is at least 0.7, the others are unknown;
\* 0.7 is recognised and 0.6999 is unknown.
C8_ThresholdInclusive ==
    \A c \in monitors :
        (pc[c] = "sleep" /\ ~is_busy[c]) =>
            LET faces == api_reply[c].json.result
                named == {k \in 1..Len(faces) : IsNamedFace(faces[k])}
            IN  /\ Len(live_status.recognized) = Cardinality(named)
                /\ named = {} => /\ live_status.status = "red"
                                 /\ live_status.detail = Len(faces)
                /\ faces = <<Face(<<[subject |-> "alice", similarity |-> 7000]>>)>>
                      => /\ live_status.status = "green"
                         /\ live_status.recognized = <<"alice">>
                /\ faces = <<Face(<<[subject |-> "alice", similarity |-> 6999]>>)>>
                      => /\ live_status.status = "red"
                         /\ live_status.detail = 1

\* C8: a face at exactly 0.7 has been recognised.
C8_Witness ==
    \E c \in monitors :
        /\ pc[c] = "sleep" /\ ~is_busy[c]
        /\ api_reply[c].json.result =
              <<Face(<<[subject |-> "alice", similarity |-> 7000]>>)>>
        /\ live_status.recognized = <<"alice">>

C10_HistoryIffRecognized ==
    [][/\ \A c \in Cameras :
             Finishes(c) =>
                 IF ResultTag(api_reply[c]) = "Recognized"
                 THEN history' = Append(history,
                                     [camera |-> c, image |-> CurrentImage(c),
                                      recognized |-> NamesOf(api_reply[c].json.result)])
                 ELSE history' = history
       /\ (\A c \in Cameras : ~Finishes(c)) => history' = history]_vars

\* C10: alice at 0.82 gave a green status and one entry for alice.
C10_Witness ==
    \E c \in Cameras :
        /\ api_reply[c] = HttpResponse(200, FALSE, Dict(<<Face(<<Alice>>)>>))
        /\ live_status.status = "green"
        /\ history = <<[camera |-> c, image |-> live_status.image_file,
                        recognized |-> <<"alice">>]>>

\* C11: when an iteration raises (process_image on a success body it cannot
\* read), the handler of the loop publishes the red error status without an
\* image, the worker sleeps check_interval and no other delay, and from that
\* sleep it only goes on to the top of the loop: no step ends the loop.
C11_LoopSurvivesException ==
    [][\A c \in Cameras :
          /\ (Finishes(c) /\ ResultTag(api_reply[c]) = "Unreadable")
                => /\ live_status'.status = "red"
                   /\ live_status'.message = "System Fehler"
                   /\ live_status'.camera_id = c
                   /\ pc'[c] = "sleep"
                   /\ sleep_for'[c] = check_interval[c]
          /\ pc[c] = "sleep" => pc'[c] \in {"sleep", "top"}
          /\ pc'[c] \in {"start", "top", "process", "await", "sleep"}]_vars

\* C11: after an iteration that raised and the sleep of 1.5 s, the worker is
\* at the top of its loop again.
C11_Witness ==
    \E c \in Cameras :
        /\ live_status.message = "System Fehler"
        /\ sleep_for[c] = 1500
        /\ pc[c] = "top"

\* C12: whenever the worker is between two iterations, also after one in
\* which process_image raised, neither the lock nor is_busy is held, so the
\* next iteration scans.
C12_SlotFreeBetweenIterations ==
    \A c \in Cameras :
        pc[c] \in {"sleep", "top"} => ~processing_lock[c] /\ ~is_busy[c]

\* C13: the lock of a monitor is held exactly while its one batch is being
\* processed, a batch begins only with the lock free, and in no state in
\* which the worker sleeps (adaptive delay or the sleep after an exception)
\* the lock is held.
C13_LockOnlyInCycle ==
    \A c \in Cameras :
        /\ processing_lock[c] <=> pc[c] \in {"process", "await"}
        /\ processing_lock[c] => batch_pos[c] \in 1..Len(new_images[c])
        /\ pc[c] = "sleep" => ~processing_lock[c]

\* C13: the worker sleeps after an exception, and the lock is free.
C13_Witness ==
    \E c \in Cameras :
        /\ pc[c] = "sleep"
        /\ live_status.message = "System Fehler"
        /\ sleep_for[c] = check_interval[c]
        /\ ~processing_lock[c]

\* C16: recognize_face gives one result per outcome of the request: 200 the
\* parsed result list; another status with the no-face text a success with an
\* empty list; any other status the error HTTP <code>; a request that exceeded
\* the timeout the error Timeout, published gray; any other transport failure
\* another error, published red.
C16_OneResultPerOutcome ==
    [][\A c \in Cameras :
          Finishes(c) =>
              LET reply == api_reply[c]
                  result == recognize_face(reply)
                  tag == ResultTag(reply)
              IN  /\ (reply.kind = "response" /\ reply.status_code = 200
                          /\ reply.json.type = "dict")
                        => result.success /\ result.data.result = reply.json.result
                  /\ (reply.kind = "response" /\ reply.status_code # 200
                          /\ reply.no_face_text)
                        => result.success /\ result.data.result = <<>>
                  /\ (reply.kind = "response" /\ reply.status_code = 500
                          /\ ~reply.no_face_text)
                        => ~result.success /\ result.error = "HTTP 500"
                  /\ tag = "Timeout"
                        => /\ ~result.success /\ result.error = "Timeout"
                           /\ live_status'.status = "gray"
                  /\ (reply.kind = "exception" /\ tag = "ServiceError")
                        => /\ ~result.success /\ result.error # "Timeout"
                           /\ live_status'.status = "red"]_vars

\* C14: with check_interval 1.5 s and an empty folder from the start of the
\* monitor, among the first 35 iterations the heartbeat is published in the
\* first one that begins more than 30 s after the start, and in no other.
C14_OneHeartbeatIn35Ticks ==
    [][\A c \in Cameras :
          ( /\ check_interval[c] = 1500
            /\ DOMAIN folder[c] = {} /\ api_calls[c] = <<>>
            /\ pc[c] = "top" /\ pc'[c] = "sleep"
            /\ consecutive_empty'[c] \in 1..35 )
          => ( (live_status' # live_status /\ live_status'.message = "Ueberwache")
               <=> ( /\ now - StartClock > 30000
                     /\ now - sleep_for[c] - StartClock <= 30000 ) )]_vars

\* C15: the sleep after an iteration that did not raise is given by the
\* counter c and the interval b alone: 0.2 s at c = 0, 0.3 b at c = 1..2, b at
\* c = 3..9, 1.2 b from c = 10; for b of 1 s or more, the sleep after an empty
\* scan is never shorter than the sleep before it.
C15_DelayStaircase ==
    [][\A c \in Cameras :
          LET b == check_interval[c]
              n == consecutive_empty'[c]
          IN  ( \/ pc[c] = "top" /\ pc'[c] = "sleep"
                \/ /\ pc[c] = "await" /\ pc'[c] = "sleep"
                   /\ ResultTag(api_reply[c]) # "Unreadable" )
              => /\ n = 0 => sleep_for'[c] = 200
                 /\ n \in 1..2 => sleep_for'[c] * 10 = 3 * b
                 /\ n \in 3..9 => sleep_for'[c] = b
                 /\ n >= 10 => sleep_for'[c] * 10 = 12 * b
                 /\ (b >= 1000 /\ n = consecutive_empty[c] + 1)
                       => sleep_for'[c] >= sleep_for[c]]_vars

\* C15: the tenth empty scan in a row at 1.5 s has set a sleep of 1.8 s, and
\* time has passed.
C15_Witness ==
    \E c \in Cameras :
        /\ check_interval[c] = 1500
        /\ consecutive_empty[c] = 10
        /\ sleep_for[c] = 1800
        /\ pc[c] = "sleep"
        /\ now > StartClock

\* C17: whatever the moment the dashboard reads live_status.json, also while
\* a worker is inside update_live_status, it finds no file or one complete
\* record of one call: get_latest_status never fails on an empty or partly
\* written file, and what it returns is a status some call has published.
C17_ReaderSeesCompleteRecord ==
    /\ dashboard.camera \in {"", "N/A"} \cup Cameras
    /\ dashboard.status \in {"", "gray", "red", "green", "processing"}

\* C18: when the process is stopped from outside, every worker leaves its
\* loop at the top of the loop, between two iterations: none is ended inside
\* an iteration, with its lock held or an image in process.
C18_WorkersLeaveAtLoopTop ==
    [][\A c \in Cameras :
          (pc[c] # "killed" /\ pc'[c] = "killed")
              => /\ pc[c] \in {"start", "top", "sleep"}
                 /\ ~processing_lock[c]]_vars

\* C19 as stated: after main() has run on a configuration file that is not
\* there, or lacks the compreface or the cameras section, the process has
\* ended and no monitor thread was started.
C19_NoConfigStartsNoWorker ==
    ( /\ main_pc # "main"
      /\ \/ config_file.url = "https://faceid.tappe.dev"
         \/ ~({"compreface", "cameras"} \subseteq config_file.sections) )
    => /\ main_pc = "exited"
       /\ monitors = {}
       /\ \A c \in Cameras : pc[c] = "start"

\* C19 amended: after main() has run on a file that lacks the compreface or
\* the cameras section, the process has ended, no monitor thread was started
\* and no status written; on a missing file, the default configuration is in
\* the file and the monitor of ESP32-001 was started.
C19_InvalidConfigStartsNoWorker ==
    /\ ( /\ main_pc # "main"
         /\ ~({"compreface", "cameras"} \subseteq config_file.sections) )
       => /\ main_pc = "exited"
          /\ monitors = {}
          /\ \A c \in Cameras : pc[c] = "start"
          /\ live_status = NoStatus
    /\ ( /\ main_pc # "main"
         /\ config_file.url = "https://faceid.tappe.dev" )
       => monitors = {"ESP32-001"}

\* C19: main() has returned on a file without the cameras section.
C19_Witness ==
    /\ main_pc = "exited"
    /\ config_file.exists
    /\ "compreface" \in config_file.sections
    /\ "cameras" \notin config_file.sections
    /\ monitors = {}

\* C20: when live_status.json or the history cannot be written, the step
\* that finishes an image still sets the cursor to that image and goes on
\* with the batch or ends it as usual (counter reset, is_busy cleared, the
\* short sleep), not by the error status of the loop; the failed write leaves
\* the file as it was or empty and the history as it was, and once writing
\* works again a publish puts its record into the file.
C20_WriteFailureSwallowed ==
    [][\A c \in Cameras :
          (Finishes(c) /\ ResultTag(api_reply[c]) # "Unreadable") =>
              /\ last_processed'[c] = CurrentImage(c)
              /\ IF batch_pos[c] = Len(new_images[c])
                 THEN /\ pc'[c] = "sleep" /\ sleep_for'[c] = 200
                      /\ ~is_busy'[c] /\ consecutive_empty'[c] = 0
                 ELSE pc'[c] = "process" /\ batch_pos'[c] = batch_pos[c] + 1
              /\ live_status'.message # "System Fehler"
              /\ IF writable.status
                 THEN /\ live_status'.image_file = CurrentImage(c)
                      /\ live_status'.status = Colour(ResultTag(api_reply[c]))
                 ELSE live_status' = live_status \/ live_status'.status = "empty"
              /\ ~writable.history => history' = history]_vars

\* C20: a batch of three images has ended as usual with the cursor at its
\* last image, although the last status could not be written and no entry
\* could be appended for a recognised image.
C20_Witness ==
    \E c \in Cameras :
        /\ ~writable.status /\ ~writable.history
        /\ live_status.status = "empty"
        /\ ResultTag(api_reply[c]) = "Recognized"
        /\ history = <<>>
        /\ last_processed[c] = 3
        /\ pc[c] = "sleep" /\ ~is_busy[c]

\* C21: with two camera threads, a step of one thread (a classification
\* failure, an iteration that raises and a skipped iteration included) leaves
\* the other monitor's last_processed, processing_lock, is_busy and
\* consecutive_empty as they were and does not move the other thread; and
\* wherever the one thread stands, the other can take its next step: scan when
\* it is at the top of the loop and not busy, send when it has a batch, read
\* the response when it waits for one.
C21_ThreadsIndependent ==
    [][\A c, d \in Cameras :
          c # d /\ pc'[c] # pc[c] =>
             /\ last_processed'[d] = last_processed[d]
             /\ processing_lock'[d] = processing_lock[d]
             /\ is_busy'[d] = is_busy[d]
             /\ consecutive_empty'[d] = consecutive_empty[d]
             /\ pc'[d] = pc[d]
             /\ pc[d] = "top" /\ ~is_busy[d] /\ consecutive_empty[d] < MaxEmpty
                   => ENABLED (ScanEmpty(d, BatchCap, MaxEmpty) \/ ScanBatch(d, BatchCap))
             /\ pc[d] = "process" => ENABLED BeginImage(d)
             /\ pc[d] = "await" => ENABLED (ThreadOf(d))]_vars

\* C21: the iteration of one thread has raised and left its monitor busy, the
\* other monitor has processed its file and is free.
C21_Witness ==
    /\ is_busy["ESP32-001"] /\ pc["ESP32-001"] = "sleep"
    /\ last_processed["ESP32-001"] = None
    /\ ~is_busy["ESP32-002"] /\ pc["ESP32-002"] = "sleep"
    /\ last_processed["ESP32-002"] = 1

\* C22: recognition_results.json never holds two entries with the same camera
\* and the same image file name.
C22_NoImageTwiceInHistory ==
    \A i, j \in 1..Len(history) :
        i # j => <<history[i].camera, history[i].image>>
                    # <<history[j].camera, history[j].image>>

\* C22: the monitor has stored recognitions of two batches, four images of one
\* camera in all.
C22_Witness ==
    /\ Len(history) >= 4
    /\ \A k \in 0..3 :
          /\ history[Len(history) - k].camera = "ESP32-001"
          /\ history[Len(history) - k].image = 4 - k
    /\ Len(api_calls["ESP32-001"]) = 4

\* How long the folder of c has shown nothing new when an iteration begins:
\* the sleeps since the start of the thread or since its last batch.
QuietFor(c) ==
    LET RECURSIVE Slept(_)
        Slept(n) == IF n = 0 THEN 0
                    ELSE Slept(n - 1) + Delay(n, check_interval[c])
    IN  (IF api_calls[c] = <<>> THEN 0 ELSE 200) + Slept(consecutive_empty[c])

\* C23: the heartbeat is published only in an iteration whose scan returned
\* nothing, only when the folder has shown nothing new for at least 30 s since
\* the last batch (or the start of the thread) and the previous heartbeat is at
\* least 30 s old; the first empty iteration after a batch publishes none.
C23_HeartbeatAfter30sQuiet ==
    [][\A c \in Cameras :
          ( /\ pc'[c] # pc[c]
            /\ live_status' # live_status
            /\ live_status'.message = "Ueberwache" )
          => /\ pc[c] = "top"
             /\ get_newest_images(folder[c], last_processed[c], 3) = <<>>
             /\ QuietFor(c) >= 30000
             /\ last_heartbeat[c] # 0 => now - last_heartbeat[c] >= 30000
             /\ ~(consecutive_empty[c] = 0 /\ api_calls[c] # <<>>)]_vars

\* The last clause of C23 alone, for a monitor that has published a heartbeat
\* before: the first empty iteration after a batch publishes none.
C23_NoHeartbeatRightAfterBatch ==
    [][\A c \in Cameras :
          ( /\ pc'[c] # pc[c]
            /\ live_status' # live_status
            /\ live_status'.message = "Ueberwache"
            /\ last_heartbeat[c] # 0 )
          => ~(consecutive_empty[c] = 0 /\ api_calls[c] # <<>>)]_vars

\* C24: for each image of a batch, in the order of the batch: the step that
\* sends it publishes 'processing' with its file name; the step that ends
\* process_image publishes one green, red or gray status with the same file
\* name and sets last_processed to the image; and only then the next image of
\* the batch is sent.
C24_StatusAndCursorPerImage ==
    [][\A c \in Cameras :
          /\ (pc[c] = "process" /\ pc'[c] # pc[c])
                => /\ pc'[c] = "await"
                   /\ live_status'.status = "processing"
                   /\ live_status'.image_file = CurrentImage(c)
                   /\ api_calls'[c] = Append(api_calls[c], CurrentImage(c))
                   /\ batch_pos[c] > 1 => last_processed[c] = new_images[c][batch_pos[c] - 1]
          /\ Finishes(c)
                => /\ live_status'.status \in {"green", "red", "gray"}
                   /\ live_status'.image_file = CurrentImage(c)
                   /\ last_processed'[c] = CurrentImage(c)
                   /\ batch_pos[c] < Len(new_images[c])
                         => /\ pc'[c] = "process"
                            /\ new_images'[c] = new_images[c]
                            /\ batch_pos'[c] = batch_pos[c] + 1]_vars

\* The files of the folder of c a scan has to return: after the cursor, at
\* least 0.5 s old, above 3000 bytes.
Candidates(c) ==
    {f \in DOMAIN folder[c] :
        f > last_processed[c] /\ folder[c][f].age >= 500 /\ folder[c][f].size > 3000}

\* C25: consecutive_empty changes only in an iteration that holds the lock and
\* found the monitor not busy: it grows by exactly 1 when the scan returned
\* nothing and is 0 after the batch has been processed; an iteration that
\* could not run the cycle (monitor busy) and one that raised leave it as it
\* was, as does every other step.
C25_CounterOnlyInCycle ==
    [][\A c \in Cameras :
          LET ran == pc[c] = "top" /\ ~processing_lock[c] /\ ~is_busy[c]
              done == /\ Finishes(c) /\ pc'[c] = "sleep"
                      /\ ResultTag(api_reply[c]) # "Unreadable"
          IN  /\ (ran /\ pc'[c] # pc[c] /\ Candidates(c) = {})
                    => consecutive_empty'[c] = consecutive_empty[c] + 1
              /\ done => consecutive_empty'[c] = 0
              /\ consecutive_empty'[c] # consecutive_empty[c]
                    => \/ ran /\ Candidates(c) = {}
                       \/ done]_vars

\* C25: two empty scans, then an iteration that raised; a later iteration
\* found the monitor busy and has left the counter at 2.
C25_Witness ==
    \E c \in Cameras :
        /\ is_busy[c] /\ pc[c] = "sleep"
        /\ consecutive_empty[c] = 2
        /\ sleep_for[c] = 450

\* C26: the scan changes nothing it reads: the step that scans leaves
\* last_processed and the history as they were, and when it returns a batch
\* also consecutive_empty and live_status.json; the batch it returns is what
\* a second scan of the same folder would return.  In an iteration whose scan
\* returns nothing, the counter and the status change only by what run_loop
\* does after the scan (one more empty scan, the heartbeat).  last_processed
\* changes only in the step that ends process_image, to the image that was
\* sent last.
C26_ScanIsPureQuery ==
    [][\A c \in Cameras :
          /\ (pc[c] = "top" /\ pc'[c] # pc[c])
                => /\ last_processed'[c] = last_processed[c]
                   /\ history' = history
                   /\ folder' = folder
                   /\ pc'[c] = "process"
                         => /\ consecutive_empty'[c] = consecutive_empty[c]
                            /\ live_status' = live_status
                            /\ new_images'[c] = get_newest_images(folder'[c],
                                                    last_processed'[c], 3)
                   /\ pc'[c] = "sleep" /\ ~is_busy[c]
                         => /\ consecutive_empty'[c] = consecutive_empty[c] + 1
                            /\ \/ live_status' = live_status
                               \/ live_status'.message = "Ueberwache"
          /\ last_processed'[c] # last_processed[c]
                => /\ Finishes(c)
                   /\ api_calls[c] # <<>>
                   /\ last_processed'[c] = Last(api_calls[c])]_vars

\* C26: the scan has returned a second batch while the cursor is at the last
\* image of the first one and the status file shows the result of that image.
C26_Witness ==
    \E c \in Cameras :
        /\ pc[c] = "process" /\ batch_pos[c] = 1
        /\ last_processed[c] = 3
        /\ new_images[c][1] = 4
        /\ live_status.image_file = 3
        /\ live_status.status \in {"green", "red", "gray"}

\* C27: the first step of a monitor thread publishes the gray status 'System
\* gestartet' of its camera, without an image, before the thread has scanned
\* or sent anything; so the first status written to live_status.json is not
\* processing, green or red, and a thread inside its loop has published.
C27_StartedStatusFirst ==
    [][\A c \in Cameras :
          /\ (pc[c] = "start" /\ pc'[c] \notin {"start", "killed"})
                => /\ pc'[c] = "top"
                   /\ api_calls[c] = <<>> /\ api_calls'[c] = <<>>
                   /\ new_images'[c] = <<>>
                   /\ live_status'.camera_id = c
                   /\ live_status'.status = "gray"
                   /\ live_status'.message = "System gestartet"
                   /\ live_status'.image_file = 0
          /\ (live_status.status = "none" /\ live_status' # live_status)
                => live_status'.status \notin {"processing", "green", "red"}
          /\ pc[c] \in {"top", "process", "await", "sleep"}
                => live_status.status # "none"]_vars

\* C27: main() has started the thread of ESP32-001, the thread has published
\* its first status and has not scanned yet.
C27_Witness ==
    /\ main_pc = "wait"
    /\ pc["ESP32-001"] = "top"
    /\ max_count["ESP32-001"] = 3 /\ api_calls["ESP32-001"] = <<>>
    /\ consecutive_empty["ESP32-001"] = 0
    /\ live_status.status = "gray"
    /\ live_status.message = "System gestartet"

\* The names a face can be given: those of its subjects of greatest similarity.
TopNames(face) ==
    {face.subjects[k].subject :
        k \in {j \in 1..Len(face.subjects) :
                  /\ Similarity(face.subjects[j]) = TopSimilarity(face)
                  /\ "subject" \in DOMAIN face.subjects[j]}}

\* C28: after an image with a readable success body of one or more faces: if
\* some face has a best subject of similarity 0.7 or more, the status is green
\* with the names of those best subjects in the order of the faces (faces
\* below 0.7 or without subjects beside them change nothing) and the history
\* has gained the entry; otherwise the status is red with the number of faces
\* as count, a face with an empty subjects list counting as one, and the
\* history has gained nothing.
C28_RecognizedIffSomeFaceNamed ==
    \A c \in monitors :
        (pc[c] = "sleep" /\ ~is_busy[c]) =>
            LET faces == api_reply[c].json.result
                named == SelectSeq(faces, IsNamedFace)
            IN  IF Len(named) > 0
                THEN /\ live_status.status = "green"
                     /\ Len(live_status.recognized) = Len(named)
                     /\ \A k \in 1..Len(named) :
                           live_status.recognized[k] \in TopNames(named[k])
                     /\ history = <<[camera |-> c, image |-> live_status.image_file,
                                     recognized |-> live_status.recognized]>>
                ELSE /\ live_status.status = "red"
                     /\ live_status.message = "unbekannte Person(en)"
                     /\ live_status.detail = Len(faces)
                     /\ live_status.recognized = <<>>
                     /\ history = <<>>

\* C28: an image with a face without subjects and a face whose second subject
\* is the best one, at 0.7: green, named after that subject, stored.
C28_Witness ==
    \E c \in monitors :
        /\ pc[c] = "sleep" /\ ~is_busy[c]
        /\ api_reply[c].json.result =
              <<Face(<<>>),
                Face(<<[subject |-> "alice", similarity |-> 6999],
                       [subject |-> "bob", similarity |-> 7000]>>)>>
        /\ live_status.status = "green"
        /\ live_status.recognized = <<"bob">>
        /\ Len(history) = 1

\* C29: whatever the order in which the threads of two cameras read and write
\* recognition_results.json, every entry either of them has appended is in the
\* file afterwards (the total staying within 50).
C29_NoAppendLost ==
    Len(appended) <= 50 =>
        \A k \in 1..Len(appended) :
            \E i \in 1..Len(history) : history[i] = appended[k]

\* C30: files of 3001 bytes arriving last in name order and staying in the
\* folder, the service answering every request with a readable response or
\* an error, and the thread being scheduled fairly: every file that sorts
\* after the cursor is eventually passed to recognize_face, and the files are
\* passed in the order of their names.
C30_EveryFileEventuallyClassified ==
    LET c == "ESP32-001"
    IN  /\ [](\A i, j \in 1..Len(api_calls[c]) :
                 i < j => api_calls[c][i] < api_calls[c][j])
        /\ \A f \in Files :
              (f \in DOMAIN folder[c] /\ folder[c][f].size > 3000
                                      /\ f > last_processed[c])
                 ~> (\E k \in 1..Len(api_calls[c]) : api_calls[c][k] = f)

\* C30: two files of 3001 bytes have been classified in the order of their
\* names, each in a batch of its own, and the cursor is at the second.
C30_Witness ==
    \E c \in Cameras :
        /\ \A f \in 1..2 : f \in DOMAIN folder[c] /\ folder[c][f].size = 3001
        /\ Len(api_calls[c]) >= 2
        /\ api_calls[c][1] = 1 /\ api_calls[c][2] = 2
        /\ last_processed[c] = 2 /\ new_images[c] = <<>>
        /\ live_status.image_file = 2

\* C31: whatever the modification times of the files, the cursor never moves
\* past a file of more than 3000 bytes that has not been passed to
\* recognize_face: a file skipped as too young stays after the cursor and is
\* returned by a later scan.
C31_CursorNeverPassesYoungFile ==
    \A c \in monitors :
        \A f \in DOMAIN folder[c] :
            (folder[c][f].size > 3000 /\ f < last_processed[c])
                => \E k \in 1..Len(api_calls[c]) : api_calls[c][k] = f

\* C32: an iteration whose scan fails part-way, a listed file being deleted
\* before it is read, has no candidates, whatever the scan had collected:
\* nothing is sent, last_processed is unchanged, consecutive_empty grows by 1,
\* the monitor is not left busy, and the iteration ends with the sleep of an
\* empty iteration and without the error status of the loop.
C32_FailedScanIsEmptyTick ==
    [][\A c \in Cameras :
          (pc[c] = "top" /\ folder'[c] # folder[c]) =>
              /\ new_images'[c] = <<>>
              /\ pc'[c] = "sleep"
              /\ api_calls'[c] = api_calls[c]
              /\ last_processed'[c] = last_processed[c]
              /\ consecutive_empty'[c] = consecutive_empty[c] + 1
              /\ ~is_busy'[c] /\ ~processing_lock'[c]
              /\ live_status'.message # "System Fehler"
              /\ consecutive_empty'[c] \in 1..2 => sleep_for'[c] = 450]_vars

\* C32: the scan had collected the first file of the folder when it met the
\* second one deleted; the iteration was counted as empty and the first file
\* is still after the cursor.
C32_Witness ==
    \E c \in Cameras :
        /\ 1 \in DOMAIN folder[c] /\ 2 \notin DOMAIN folder[c]
        /\ last_processed[c] = None /\ api_calls[c] = <<>>
        /\ consecutive_empty[c] = 1
        /\ pc[c] = "sleep" /\ ~is_busy[c]

\* C33: in every record a monitor writes to live_status.json the list of
\* recognized names is non-empty exactly when the status is green; the record
\* of 'processing' and the record of the result of an image carry the file
\* name of that image; the records of the start, of the heartbeat and of an
\* error of the loop carry none.
C33_StatusRecordShape ==
    [][\A c \in Cameras :
          /\ live_status' # live_status
                => (live_status'.recognized # <<>> <=> live_status'.status = "green")
          /\ (pc[c] = "process" /\ pc'[c] = "await")
                => /\ live_status'.status = "processing"
                   /\ live_status'.image_file = CurrentImage(c)
                   /\ live_status'.image_file # 0
          /\ (Finishes(c) /\ ResultTag(api_reply[c]) # "Unreadable")
                => /\ live_status'.status \in {"green", "red", "gray"}
                   /\ live_status'.image_file = CurrentImage(c)
                   /\ live_status'.image_file # 0
          /\ ( \/ pc[c] = "start" /\ pc'[c] = "top"
               \/ pc[c] = "top" /\ pc'[c] = "sleep" /\ live_status' # live_status
               \/ Finishes(c) /\ ResultTag(api_reply[c]) = "Unreadable" )
                => /\ live_status'.image_file = 0
                   /\ live_status'.message
                         \in {"System gestartet", "Ueberwache", "System Fehler"}]_vars

\* C33: every image of the folder has had its result and the heartbeat, which
\* names no image and nobody, has replaced the last one.
C33_Witness ==
    \E c \in Cameras :
        /\ last_processed[c] >= 4
        /\ live_status.message = "Ueberwache"
        /\ live_status.status = "gray"
        /\ live_status.image_file = 0 /\ live_status.recognized = <<>>
        /\ \E k \in 1..Len(appended) : appended[k].image = 4

\* The thread is one of download_threads: the last start created it and no
\* stop has returned since.
InCurrentThreads(t) ==
    \E i \in 1..Len(downloader.download_threads) : downloader.download_threads[i] = t

\* C34: after any calls of start, stop and reload_config at most one download
\* loop per camera is active: start while the downloader runs creates no
\* thread, and a thread created before a stop never begins another download
\* once stop has returned, also when its join timed out.
C34_OneLoopPerCamera ==
    [][/\ (downloader.running /\ downloader'.running)
            => Len(downloader'.threads) = Len(downloader.threads)
       /\ \A t \in 1..Len(downloader.threads) :
            (downloader.threads[t].at = "loop" /\ downloader'.threads[t].at = "get")
                => InCurrentThreads(t)]_vars

C34_StartWhileRunningIsNoOp ==
    [][(downloader.running /\ downloader'.running)
            => Len(downloader'.threads) = Len(downloader.threads)]_vars

\* The n files of a folder that were created last.
NewestOf(files, n) == { f \in files : Cardinality({ g \in files : g > f }) < n }

\* C35: with one download loop per camera and max_images >= 1, the cleanup
\* before a download leaves the max_images - 1 newest files of the folder,
\* and after every download step the folder holds at most max_images files.
C35_RetentionCap ==
    [][\A t \in 1..Len(downloader.threads) :
          LET camera == downloader.threads[t].camera
              max_images == downloader.config.max_images
          IN  /\ (downloader.threads[t].at = "loop" /\ downloader'.threads[t].at = "get")
                    => downloader'.images[camera] =
                           NewestOf(downloader.images[camera], max_images - 1)
              /\ (downloader.threads[t].at = "get" /\ downloader'.threads[t].at = "sleep")
                    => Cardinality(downloader'.images[camera]) <= max_images]_vars

\* A download has filled a folder up to the cap after the cleanup removed the
\* oldest of the files an earlier run had left.
C35_Witness ==
    \E t \in 1..Len(downloader.threads) :
        LET files == downloader.images[downloader.threads[t].camera]
        IN  /\ downloader.threads[t].at = "sleep"
            /\ Cardinality(files) = downloader.config.max_images
            /\ downloader.clock \in files
            /\ MaxLeft \in files
            /\ 1 \notin files

\* The step is an iteration of the supervision loop that found a child ended.
LoopFoundExited ==
    /\ starter.at = "watch"
    /\ starter'.running
    /\ starter'.processes # starter.processes

\* The entry of the list whose process has ended is gone after the step and
\* an entry of the same name with a new process is there.
Replaced(entry) ==
    starter.children[entry.process].state # "running"
        => /\ \A j \in 1..Len(starter'.processes) : starter'.processes[j] # entry
           /\ \E j \in 1..Len(starter'.processes) :
                /\ starter'.processes[j].name = entry.name
                /\ starter'.processes[j].process > Len(starter.children)

OneEntryPerComponent(list) ==
    \A i, j \in 1..Len(list) : list[i].name = list[j].name => i = j

\* C36: an iteration of the supervision loop removes every child it finds
\* ended from the process list and starts a replacement of the same
\* component; the list never holds two entries of one component; the loop
\* ends only with the list empty or after a stop request.
C36_ExitedChildIsReplaced ==
    [][/\ LoopFoundExited
            => \A i \in 1..Len(starter.processes) : Replaced(starter.processes[i])
       /\ OneEntryPerComponent(starter'.processes)
       /\ (starter.at = "watch" /\ starter'.at # "watch")
            => (starter'.processes = <<>> \/ ~starter'.running)]_vars

C36_OneEntryAndLoopEnd ==
    [][/\ OneEntryPerComponent(starter'.processes)
       /\ (starter.at = "watch" /\ starter'.at # "watch")
            => (starter'.processes = <<>> \/ ~starter'.running)]_vars

NamesOfList(list) == [i \in 1..Len(list) |-> list[i].name]

\* start_all has returned from a failed start of its second or third child.
StartAborted == starter.at \in {"face", "web"} /\ starter'.at = "returned"

\* C37: the children are started in the order Pull API, Face Monitor, Web
\* Dashboard; a Pull API that cannot be started does not end the startup;
\* when the Face Monitor or the Web Dashboard cannot be started, every child
\* started before is terminated or killed and the process list is empty when
\* start_all returns.
C37_StartupOrderAndAbort ==
    [][/\ (starter.at = "pull" /\ starter'.at # "exited")
            => /\ starter'.at = "face"
               /\ starter'.running
               /\ NamesOfList(starter'.processes) \in {<<>>, <<"Pull API">>}
       /\ (starter.at = "face" /\ starter'.at = "web")
            => NamesOfList(starter'.processes) \in
                   {<<"Face Monitor">>, <<"Pull API", "Face Monitor">>}
       /\ (starter.at = "web" /\ starter'.at = "watch")
            => NamesOfList(starter'.processes) \in
                   {<<"Face Monitor", "Web Dashboard">>,
                    <<"Pull API", "Face Monitor", "Web Dashboard">>}
       /\ StartAborted
            => /\ starter'.processes = <<>>
               /\ \A p \in 1..Len(starter.children) :
                    /\ starter'.children[p].state # "running"
                    /\ starter.children[p].state = "running"
                         => starter'.children[p].state \in {"terminated", "killed"}]_vars

\* The Web Dashboard could not be started: the Pull API did not end within
\* 5 seconds and was killed, the Face Monitor ended on SIGTERM.
C37_Witness ==
    /\ starter.at = "returned"
    /\ starter.processes = <<>>
    /\ Len(starter.children) = 2
    /\ starter.children[1] = [name |-> "Pull API", state |-> "killed"]
    /\ starter.children[2] = [name |-> "Face Monitor", state |-> "terminated"]





====
